---- MODULE Spec2Model ----
(***************************************************************************)
(* solpm: the TypeScript client generator (src/commands/codegen.rs) and    *)
(* the IDL types it reads (src/commands/types.rs).                         *)
(*                                                                         *)
(* Strings are sequences of one-character tokens, Option<T> is a sequence  *)
(* of length 0 (None) or 1 (Some), Result<T> is a record with field ok.    *)
(* Generated source text is kept as the sequence of the format! pieces     *)
(* pushed onto `code`, each a record of the values substituted into it.    *)
(***************************************************************************)
EXTENDS Integers, Sequences, FiniteSets, TLC

VARIABLES
    pc,                    \* where the running command or call stands
    input, output, from,   \* a direct call of one function: argument, result, origin of the argument
    solana_programs_file,  \* SolanaPrograms.json: None, or the parse result of its content
    idl_files,             \* the schema file of each configured program
    idx,                   \* position of the loop over all_programs
    files,                 \* program/client/: file name -> content, None when absent
    generated_count,
    stdout,
    ret,                   \* the command's return value, None while it runs
    install,               \* install_dependencies: its argument and locals, None when it does not run
    auth                   \* login: its argument and locals, None when it does not run

call_vars == <<input, output, from>>

command_vars ==
    <<solana_programs_file, idl_files, idx, files, generated_count, stdout, ret, install, auth>>

vars == <<pc, input, output, from, solana_programs_file, idl_files, idx, files,
          generated_count, stdout, ret, install, auth>>

(* ------------------------------------------------------------------ *)
(* Bounds of the checked input spaces                                  *)
(* ------------------------------------------------------------------ *)
MaxStrLen == 4

MaxSeeds == 3

MaxArgs == 1

MaxInstr == 2

MaxPrograms == 2

MaxAccounts == 2

MaxWrapperArgs == 2

(* ------------------------------------------------------------------ *)
(* Option and sequence helpers                                         *)
(* ------------------------------------------------------------------ *)
None == <<>>

Some(x) == <<x>>

is_some(o) == Len(o) = 1

unwrap(o) == o[1]

unwrap_or(o, d) == IF is_some(o) THEN o[1] ELSE d

contains(v, x) == \E i \in 1..Len(v) : v[i] = x

SeqsUpTo(S, n) == UNION {[1..k -> S] : k \in 0..n}

RECURSIVE concat(_)
concat(ss) == IF ss = <<>> THEN <<>> ELSE Head(ss) \o concat(Tail(ss))

(* ------------------------------------------------------------------ *)
(* Characters.  "fi" stands for a character whose uppercase mapping is *)
(* more than one character (char::to_uppercase yields an iterator).    *)
(* ------------------------------------------------------------------ *)
LowerLetters == <<"a","b","c","d","e","f","g","h","i","j","k","l","m",
                  "n","o","p","q","r","s","t","u","v","w","x","y","z">>

UpperLetters == <<"A","B","C","D","E","F","G","H","I","J","K","L","M",
                  "N","O","P","Q","R","S","T","U","V","W","X","Y","Z">>

to_uppercase(c) ==
    IF c = "fi" THEN <<"F", "I">>
    ELSE IF \E i \in 1..26 : LowerLetters[i] = c
         THEN <<UpperLetters[CHOOSE i \in 1..26 : LowerLetters[i] = c]>>
         ELSE <<c>>

to_lowercase(c) ==
    IF \E i \in 1..26 : UpperLetters[i] = c
    THEN <<LowerLetters[CHOOSE i \in 1..26 : UpperLetters[i] = c]>>
    ELSE <<c>>

(* str::split(sep): the segments between separators, at least one. *)
RECURSIVE split_from(_, _, _, _)
split_from(s, sep, i, cur) ==
    IF i > Len(s) THEN <<cur>>
    ELSE (IF s[i] = sep THEN <<cur>> ELSE <<>>)
         \o split_from(s, sep, i + 1, IF s[i] = sep THEN <<>> ELSE Append(cur, s[i]))

split(s, sep) == split_from(s, sep, 1, <<>>)

(* ------------------------------------------------------------------ *)
(* Identifier transformer                                              *)
(* ------------------------------------------------------------------ *)
\* mutant: capitalize_next is never cleared
RECURSIVE camel_loop_sticky(_, _, _, _)
camel_loop_sticky(s, i, result, capitalize_next) ==
    IF i > Len(s) THEN result
    ELSE camel_loop_sticky(s, i + 1,
             IF s[i] = "_" THEN result
             ELSE IF capitalize_next THEN Append(result, to_uppercase(s[i])[1])
             ELSE Append(result, s[i]),
             s[i] = "_" \/ capitalize_next)

snake_to_camel_sticky(s) == camel_loop_sticky(s, 1, <<>>, FALSE)

(* lines 379-388: one pass of the loop appends to result and sets the flag *)
RECURSIVE camel_loop(_, _, _, _)
camel_loop(s, i, result, capitalize_next) ==
    IF i > Len(s) THEN result
    ELSE camel_loop(s, i + 1,
             IF s[i] = "_" THEN result
             ELSE IF capitalize_next THEN Append(result, to_uppercase(s[i])[1])
             ELSE Append(result, s[i]),
             IF s[i] = "_" THEN TRUE
             ELSE IF capitalize_next THEN FALSE
             ELSE capitalize_next)

snake_to_camel(s) == camel_loop(s, 1, <<>>, FALSE)

\* mutant: the rest of the word is lowercased (a "capitalize" helper)
snake_to_pascal_lower_rest(s) ==
    LET words == split(s, "_")
        cap(word) == IF word = <<>> THEN <<>>
                     ELSE to_uppercase(Head(word))
                          \o concat([k \in 1..(Len(word) - 1) |-> to_lowercase(word[k + 1])])
    IN  concat([k \in 1..Len(words) |-> cap(words[k])])

pascal_word(word) ==
    IF word = <<>> THEN <<>>
    ELSE to_uppercase(Head(word)) \o Tail(word)

snake_to_pascal(s) ==
    LET words == split(s, "_")
    IN  concat([k \in 1..Len(words) |-> pascal_word(words[k])])

(* ------------------------------------------------------------------ *)
(* String literals of the source                                       *)
(* ------------------------------------------------------------------ *)
S_const == <<"c","o","n","s","t">>

S_account == <<"a","c","c","o","u","n","t">>

S_arg == <<"a","r","g">>

S_creator == <<"c","r","e","a","t","o","r">>

S_string == <<"s","t","r","i","n","g">>

S_u8 == <<"u","8">>

S_u16 == <<"u","1","6">>

S_u32 == <<"u","3","2">>

S_u64 == <<"u","6","4">>

S_i8 == <<"i","8">>

S_i16 == <<"i","1","6">>

S_i32 == <<"i","3","2">>

S_i64 == <<"i","6","4">>

S_bool == <<"b","o","o","l">>

S_bytes == <<"b","y","t","e","s">>

S_VecU8 == <<"V","e","c","<","u","8",">">>

S_publicKey == <<"p","u","b","l","i","c","K","e","y">>

S_pubkey == <<"p","u","b","k","e","y">>

S_Pubkey == <<"P","u","b","k","e","y">>

S_PublicKey == <<"P","u","b","l","i","c","K","e","y">>

S_unknown == <<"u","n","k","n","o","w","n">>

S_option_ == <<"o","p","t","i","o","n","_">>

S_defined_ == <<"d","e","f","i","n","e","d","_">>

S_mainnet == <<"m","a","i","n","n","e","t">>

S_devnet == <<"d","e","v","n","e","t">>

\* a string literal of the source, as it is
Lit(text) == [tpl |-> text, vals |-> <<>>]

(* constants.rs *)
MAINNET_RPC_URL == Lit("https://api.mainnet-beta.solana.com")

DEVNET_RPC_URL == Lit("https://api.devnet.solana.com")

SYSTEM_PROGRAM_ID == [k \in 1..32 |-> "1"]

(* format!(template, args...): the template and the values substituted. *)
Fmt(template, vals) == [tpl |-> template, vals |-> vals]

Ok(v) == [ok |-> TRUE, val |-> v]

Err(variant, msg) == [ok |-> FALSE, err |-> [variant |-> variant, msg |-> msg]]

(* ------------------------------------------------------------------ *)
(* Schema model (types.rs)                                             *)
(* ------------------------------------------------------------------ *)
(* serde_json::Value of an argument type: a string, an object (of      *)
(* which only the keys "option" and "defined" are read), or another    *)
(* JSON value.  A value under a key is a string or something else.     *)
JStr(s) == [is_str |-> TRUE, s |-> s]

JOther == [is_str |-> FALSE, s |-> <<>>]

as_str(v) == IF v.is_str THEN Some(v.s) ELSE None

TypeString(s) == [json |-> "String", s |-> s, option |-> None, defined |-> None]

TypeObject(option, defined) == [json |-> "Object", s |-> <<>>, option |-> option, defined |-> defined]

TypeOther == [json |-> "Other", s |-> <<>>, option |-> None, defined |-> None]

IdlArg(name, arg_type) == [name |-> name, arg_type |-> arg_type]

get_type_string(arg) ==
    IF arg.arg_type.json = "String" THEN arg.arg_type.s
    ELSE IF arg.arg_type.json = "Object"
         THEN IF is_some(arg.arg_type.option)
              THEN S_option_ \o unwrap_or(as_str(unwrap(arg.arg_type.option)), S_unknown)
              ELSE IF is_some(arg.arg_type.defined)
                   THEN S_defined_ \o unwrap_or(as_str(unwrap(arg.arg_type.defined)), S_unknown)
                   ELSE S_unknown
         ELSE S_unknown

IdlSeed(kind, value, path) == [kind |-> kind, value |-> value, path |-> path, account |-> None]

IdlPda(seeds) == [seeds |-> seeds]

IdlAccount(name, writable, signer, is_mut, is_signer, address, pda) ==
    [name |-> name, writable |-> writable, signer |-> signer, is_mut |-> is_mut,
     is_signer |-> is_signer, address |-> address, pda |-> pda]

\* mutant: the legacy field wins when both are present
is_writable_legacy_first(account) ==
    unwrap_or(account.is_mut, unwrap_or(account.writable, FALSE))

is_writable(account) ==
    unwrap_or(account.writable, unwrap_or(account.is_mut, FALSE))

is_signer_account(account) ==
    unwrap_or(account.signer, unwrap_or(account.is_signer, FALSE))

IdlInstruction(name, accounts, args) == [name |-> name, accounts |-> accounts, args |-> args]

Idl(instructions) == [instructions |-> instructions]

(* ------------------------------------------------------------------ *)
(* bytes_to_string                                                     *)
(* ------------------------------------------------------------------ *)
Digits == <<"0","1","2","3","4","5","6","7","8","9">>

HexDigits == <<"0","1","2","3","4","5","6","7","8","9","a","b","c","d","e","f">>

\* the character with code point cp
chr(cp) ==
    IF cp >= 97 /\ cp <= 122 THEN LowerLetters[cp - 96]
    ELSE IF cp >= 65 /\ cp <= 90 THEN UpperLetters[cp - 64]
    ELSE IF cp >= 48 /\ cp <= 57 THEN Digits[cp - 47]
    ELSE IF cp = 95 THEN "_"
    ELSE IF cp = 46 THEN "."
    ELSE "U+" \o ToString(cp)

is_cont(b) == b >= 128 /\ b <= 191

\* the well-formed UTF-8 sequence starting at b[i]: its length and its code
\* point; length 0 when the bytes there are ill-formed
utf8_char_at(b, i) ==
    LET b0 == b[i]
        n  == Len(b) - i
    IN  IF b0 < 128 THEN [len |-> 1, cp |-> b0]
        ELSE IF b0 >= 194 /\ b0 <= 223 /\ n >= 1 /\ is_cont(b[i + 1])
        THEN [len |-> 2, cp |-> (b0 - 192) * 64 + (b[i + 1] - 128)]
        ELSE IF /\ b0 >= 224 /\ b0 <= 239
                /\ n >= 2
                /\ is_cont(b[i + 1])
                /\ is_cont(b[i + 2])
                /\ (b0 = 224 => b[i + 1] >= 160)
                /\ (b0 = 237 => b[i + 1] <= 159)
        THEN [len |-> 3, cp |-> (b0 - 224) * 4096 + (b[i + 1] - 128) * 64 + (b[i + 2] - 128)]
        ELSE IF /\ b0 >= 240 /\ b0 <= 244
                /\ n >= 3
                /\ is_cont(b[i + 1])
                /\ is_cont(b[i + 2])
                /\ is_cont(b[i + 3])
                /\ (b0 = 240 => b[i + 1] >= 144)
                /\ (b0 = 244 => b[i + 1] <= 143)
        THEN [len |-> 4, cp |-> (b0 - 240) * 262144 + (b[i + 1] - 128) * 4096
                                + (b[i + 2] - 128) * 64 + (b[i + 3] - 128)]
        ELSE [len |-> 0, cp |-> 0]

(* String::from_utf8: the characters of a well-formed UTF-8 byte      *)
(* sequence, None when it is ill-formed.                               *)
RECURSIVE from_utf8_at(_, _, _)
from_utf8_at(b, i, acc) ==
    IF i > Len(b) THEN Some(acc)
    ELSE LET c == utf8_char_at(b, i)
         IN  IF c.len = 0 THEN None
             ELSE from_utf8_at(b, i + c.len, Append(acc, chr(c.cp)))

from_utf8(bytes) == from_utf8_at(bytes, 1, <<>>)

hex_encode(bytes) ==
    concat([k \in 1..Len(bytes) |->
              <<HexDigits[(bytes[k] \div 16) + 1], HexDigits[(bytes[k] % 16) + 1]>>])

\* mutant: the bytes are always rendered as hex
bytes_to_string_hex(bytes) == <<"0", "x">> \o hex_encode(bytes)

bytes_to_string(bytes) ==
    unwrap_or(from_utf8(bytes), <<"0", "x">> \o hex_encode(bytes))

(* ------------------------------------------------------------------ *)
(* Seed resolver                                                       *)
(* ------------------------------------------------------------------ *)
\* mutant: the whole path names the parameter
extract_param_from_path_whole(path) == path

extract_param_from_path(path) ==
    LET parts == split(path, ".") IN parts[Len(parts)]

\* mutant: the first argument is taken, whatever its name
find_arg_any(instruction_args, param_name) ==
    IF instruction_args # <<>> THEN Some(instruction_args[1]) ELSE None

find_arg(instruction_args, param_name) ==
    IF \E i \in 1..Len(instruction_args) : instruction_args[i].name = param_name
    THEN Some(instruction_args[CHOOSE i \in 1..Len(instruction_args) :
                  /\ instruction_args[i].name = param_name
                  /\ \A j \in 1..(i - 1) : instruction_args[j].name # param_name])
    ELSE None

\* mutant: every argument is passed through raw
arg_buffer_code_all_raw(arg_type, param_name) == Fmt("Buffer.from({})", <<param_name>>)

arg_buffer_code(arg_type, param_name) ==
    IF arg_type = S_string THEN Fmt("Buffer.from({})", <<param_name>>)
    ELSE IF arg_type = S_u8 THEN Fmt("Buffer.from([{}])", <<param_name>>)
    ELSE IF arg_type = S_u16 THEN Fmt("Buffer.from(new Uint16Array([{}]))", <<param_name>>)
    ELSE IF arg_type = S_u32 THEN Fmt("Buffer.from(new Uint32Array([{}]))", <<param_name>>)
    ELSE IF arg_type = S_u64
         THEN Fmt("Buffer.from(new anchor.BN({}).toArray('le', 8))", <<param_name>>)
    ELSE IF arg_type = S_i8
         THEN Fmt("Buffer.from([{} < 0 ? {} + 256 : {}])", <<param_name, param_name, param_name>>)
    ELSE IF arg_type = S_i16 THEN Fmt("Buffer.from(new Int16Array([{}]))", <<param_name>>)
    ELSE IF arg_type = S_i32 THEN Fmt("Buffer.from(new Int32Array([{}]))", <<param_name>>)
    ELSE IF arg_type = S_i64
         THEN Fmt("Buffer.from(new anchor.BN({}).toArray('le', 8))", <<param_name>>)
    ELSE IF arg_type = S_bool THEN Fmt("Buffer.from([{} ? 1 : 0])", <<param_name>>)
    ELSE IF arg_type = S_bytes \/ arg_type = S_VecU8 THEN Fmt("Buffer.from({})", <<param_name>>)
    ELSE IF arg_type = S_publicKey THEN Fmt("{}.toBuffer()", <<param_name>>)
    ELSE IF arg_type = S_pubkey \/ arg_type = S_Pubkey \/ arg_type = S_PublicKey
         THEN Fmt("{}.toBuffer()", <<param_name>>)
    ELSE IF arg_type # <<>> /\ (arg_type[1] = "u" \/ arg_type[1] = "i")
         THEN Fmt("Buffer.from(new Uint32Array([{}]))", <<param_name>>)
         ELSE Fmt("Buffer.from({}) // TODO: Verify type handling for '{}'",
                  <<param_name, arg_type>>)

\* mutant: the name is appended without looking for it in the list
push_always(params, param_name) == Append(params, param_name)

push_new(params, param_name) ==
    IF contains(params, param_name) THEN params ELSE Append(params, param_name)

(* lines 473-538: one seed; the lists afterwards, or the error *)
parse_seed(seed, instruction_args, params, seed_buffers) ==
    IF seed.kind = S_const
    THEN IF is_some(seed.value)
         THEN Ok(<<params,
                   Append(seed_buffers,
                          Fmt("Buffer.from('{}')", <<bytes_to_string(unwrap(seed.value))>>))>>)
         ELSE Ok(<<params, seed_buffers>>)
    ELSE IF seed.kind = S_account
    THEN IF is_some(seed.path)
         THEN LET param_name == extract_param_from_path(unwrap(seed.path))
              IN  Ok(<<push_new(params, param_name),
                       Append(seed_buffers, Fmt("{}.toBuffer()", <<param_name>>))>>)
         ELSE Ok(<<params, seed_buffers>>)
    ELSE IF seed.kind = S_arg
    THEN IF is_some(seed.path)
         THEN LET param_name == unwrap(seed.path)
                  found == find_arg(instruction_args, param_name)
                  arg_type == IF is_some(found) THEN get_type_string(unwrap(found))
                              ELSE S_string
              IN  Ok(<<push_new(params, param_name),
                       Append(seed_buffers, arg_buffer_code(arg_type, param_name))>>)
         ELSE Ok(<<params, seed_buffers>>)
    ELSE Err("InvalidIdl", Fmt("Unknown seed kind: {}", <<seed.kind>>))

RECURSIVE parse_seeds_loop(_, _, _, _)
parse_seeds_loop(seeds, instruction_args, i, acc) ==
    IF i > Len(seeds) \/ ~acc.ok THEN acc
    ELSE parse_seeds_loop(seeds, instruction_args, i + 1,
                          parse_seed(seeds[i], instruction_args, acc.val[1], acc.val[2]))

\* mutant: a seed of unknown kind is skipped (`_ => {}`)
parse_pda_seeds_skip_unknown(seeds, instruction_args) ==
    parse_seeds_loop(SelectSeq(seeds, LAMBDA seed : seed.kind \in {S_const, S_account, S_arg}),
                     instruction_args, 1, Ok(<<<<>>, <<>>>>))

parse_pda_seeds(seeds, instruction_args) ==
    parse_seeds_loop(seeds, instruction_args, 1, Ok(<<<<>>, <<>>>>))

(* ------------------------------------------------------------------ *)
(* Emitters                                                            *)
(* ------------------------------------------------------------------ *)
S_comma_space == <<",", " ">>

S_wallet_publicKey == <<"w","a","l","l","e","t",".","p","u","b","l","i","c","K","e","y">>

S_get == <<"g","e","t">>

S_PDA == <<"P","D","A">>

S_Pda == <<"P","d","a">>

\* [String]::join(sep)
RECURSIVE join(_, _)
join(v, sep) ==
    IF v = <<>> THEN <<>>
    ELSE IF Len(v) = 1 THEN v[1]
    ELSE v[1] \o sep \o join(Tail(v), sep)

pda_function_name(account) == S_get \o snake_to_pascal(account.name) \o S_PDA

pda_function_text(account, params, seed_buffers) ==
    <<Fmt("// Get {} PDA\n", <<account.name>>),
      Fmt("export const {} = ({}) => {{\n", <<pda_function_name(account), join(params, S_comma_space)>>),
      Lit("  return PublicKey.findProgramAddressSync(\n"),
      Lit("    [\n")>>
    \o [k \in 1..Len(seed_buffers) |-> Fmt("      {},\n", <<seed_buffers[k]>>)]
    \o <<Lit("    ],\n"),
         Lit("    PROGRAM_ID\n"),
         Lit("  );\n"),
         Lit("};\n\n")>>

(* lines 199-224: one account of one instruction.  acc is the code and  *)
(* the set generated_pdas so far, or the error of an earlier account.  *)
pda_function_step(instruction, account, acc) ==
    IF ~is_some(account.pda) \/ account.name \in acc.val[2] THEN acc
    ELSE LET parsed == parse_pda_seeds(unwrap(account.pda).seeds, instruction.args)
         IN  IF ~parsed.ok THEN parsed
             ELSE Ok(<<acc.val[1] \o pda_function_text(account, parsed.val[1], parsed.val[2]),
                       acc.val[2] \cup {account.name}>>)

\* mutant: the name is looked up in the set but never inserted
pda_function_step_no_insert(instruction, account, acc) ==
    IF ~is_some(account.pda) \/ account.name \in acc.val[2] THEN acc
    ELSE LET parsed == parse_pda_seeds(unwrap(account.pda).seeds, instruction.args)
         IN  IF ~parsed.ok THEN parsed
             ELSE Ok(<<acc.val[1] \o pda_function_text(account, parsed.val[1], parsed.val[2]),
                       acc.val[2]>>)

RECURSIVE pda_functions_loop_no_insert(_, _, _, _)
pda_functions_loop_no_insert(idl, i, j, acc) ==
    IF i > Len(idl.instructions) \/ ~acc.ok THEN acc
    ELSE LET instruction == idl.instructions[i]
             more == j <= Len(instruction.accounts)
         IN  pda_functions_loop_no_insert(idl,
                 IF more THEN i ELSE i + 1,
                 IF more THEN j + 1 ELSE 1,
                 IF more THEN pda_function_step_no_insert(instruction, instruction.accounts[j], acc)
                 ELSE acc)

generate_pda_functions_no_insert(code, idl) ==
    LET r == pda_functions_loop_no_insert(idl, 1, 1, Ok(<<code, {}>>))
    IN  IF r.ok THEN Ok(r.val[1]) ELSE r

(* lines 197-226: the loops over the instructions (i) and their accounts (j) *)
RECURSIVE pda_functions_loop(_, _, _, _)
pda_functions_loop(idl, i, j, acc) ==
    IF i > Len(idl.instructions) \/ ~acc.ok THEN acc
    ELSE LET instruction == idl.instructions[i]
             more == j <= Len(instruction.accounts)
         IN  pda_functions_loop(idl,
                 IF more THEN i ELSE i + 1,
                 IF more THEN j + 1 ELSE 1,
                 IF more THEN pda_function_step(instruction, instruction.accounts[j], acc)
                 ELSE acc)

\* mutant: the set of generated names outlives one program: it starts with
\* the names defined in the client files written so far
generate_pda_functions_shared_set(code, idl) ==
    LET r == pda_functions_loop(idl, 1, 1,
                 Ok(<<code,
                      UNION { { unwrap(files[f])[k].vals[1] :
                                  k \in { m \in 1..Len(unwrap(files[f])) :
                                            unwrap(files[f])[m].tpl = "// Get {} PDA\n" } }
                              : f \in { g \in DOMAIN files : is_some(files[g]) } }>>))
    IN  IF r.ok THEN Ok(r.val[1]) ELSE r

\* mutant: the instructions are visited last to first
generate_pda_functions_last_first(code, idl) ==
    LET r == pda_functions_loop(
                 Idl([k \in 1..Len(idl.instructions) |->
                         idl.instructions[Len(idl.instructions) + 1 - k]]),
                 1, 1, Ok(<<code, {}>>))
    IN  IF r.ok THEN Ok(r.val[1]) ELSE r

generate_pda_functions(code, idl) ==
    LET r == pda_functions_loop(idl, 1, 1, Ok(<<code, {}>>))
    IN  IF r.ok THEN Ok(r.val[1]) ELSE r

\* mutant: `creator` is not excluded from the wrapper's parameters
RECURSIVE add_pda_params_keep_creator(_, _, _)
add_pda_params_keep_creator(all_params, pda_params, k) ==
    IF k > Len(pda_params) THEN all_params
    ELSE add_pda_params_keep_creator(
             IF ~contains(all_params, pda_params[k])
             THEN Append(all_params, pda_params[k])
             ELSE all_params,
             pda_params, k + 1)

(* generate_instruction_function, lines 266-270: the parameters one     *)
(* derived account adds to the wrapper's                               *)
RECURSIVE add_pda_params(_, _, _)
add_pda_params(all_params, pda_params, k) ==
    IF k > Len(pda_params) THEN all_params
    ELSE add_pda_params(
             IF ~contains(all_params, pda_params[k]) /\ pda_params[k] # S_creator
             THEN Append(all_params, pda_params[k])
             ELSE all_params,
             pda_params, k + 1)

\* lines 264-271: one account; acc is all_params so far, or an error
all_params_step(instruction, account, acc) ==
    IF ~is_some(account.pda) THEN acc
    ELSE LET parsed == parse_pda_seeds(unwrap(account.pda).seeds, instruction.args)
         IN  IF ~parsed.ok THEN parsed
             ELSE Ok(add_pda_params(acc.val, parsed.val[1], 1))

RECURSIVE all_params_loop(_, _, _)
all_params_loop(instruction, j, acc) ==
    IF j > Len(instruction.accounts) \/ ~acc.ok THEN acc
    ELSE all_params_loop(instruction, j + 1,
                         all_params_step(instruction, instruction.accounts[j], acc))

\* mutant: `creator` is left out of the call instead of being rewritten
call_params_of_drop_creator(pda_params) ==
    SelectSeq(pda_params, LAMBDA param : param # S_creator)

\* mutant: `creator` is forwarded like any other parameter
call_params_of_keep_creator(pda_params) == pda_params

\* lines 291-298
call_params_of(pda_params) ==
    [k \in 1..Len(pda_params) |->
        IF pda_params[k] = S_creator THEN S_wallet_publicKey ELSE pda_params[k]]

\* lines 285-304: one account; acc is <<code, pda_variables>> so far, or an error
pda_call_step(instruction, account, acc) ==
    IF ~is_some(account.pda) THEN acc
    ELSE LET pda_var_name == snake_to_camel(account.name) \o S_Pda
             parsed == parse_pda_seeds(unwrap(account.pda).seeds, instruction.args)
         IN  IF ~parsed.ok THEN parsed
             ELSE Ok(<<Append(acc.val[1],
                              Fmt("  const [{}] = {}({});\n",
                                  <<pda_var_name, pda_function_name(account),
                                    join(call_params_of(parsed.val[1]), S_comma_space)>>)),
                       Append(acc.val[2], <<account.name, pda_var_name>>)>>)

RECURSIVE pda_calls_loop(_, _, _)
pda_calls_loop(instruction, j, acc) ==
    IF j > Len(instruction.accounts) \/ ~acc.ok THEN acc
    ELSE pda_calls_loop(instruction, j + 1,
                        pda_call_step(instruction, instruction.accounts[j], acc))

\* mutant: the arguments are forwarded last to first
method_args_text_reversed(args) ==
    concat([k \in 1..Len(args) |->
              IF k > 1 THEN <<Lit(", "), Fmt("{}", <<args[Len(args) - k + 1].name>>)>>
              ELSE <<Fmt("{}", <<args[Len(args) - k + 1].name>>)>>])

(* lines 311-315: the forwarded arguments *)
method_args_text(args) ==
    concat([k \in 1..Len(args) |->
              IF k > 1 THEN <<Lit(", "), Fmt("{}", <<args[k].name>>)>>
              ELSE <<Fmt("{}", <<args[k].name>>)>>])

find_pda_variable(pda_variables, name) ==
    IF \E k \in 1..Len(pda_variables) : pda_variables[k][1] = name
    THEN Some(pda_variables[CHOOSE k \in 1..Len(pda_variables) :
                  /\ pda_variables[k][1] = name
                  /\ \A m \in 1..(k - 1) : pda_variables[m][1] # name])
    ELSE None

(* lines 321-347: one entry of the accounts object *)
account_entry(account, pda_variables) ==
    LET account_camel == snake_to_camel(account.name)
        writable_comment == IF is_writable(account) THEN Lit(" // writable") ELSE Lit("")
        signer_comment == IF is_signer_account(account) THEN Lit(" // signer") ELSE Lit("")
        pda_var == find_pda_variable(pda_variables, account.name)
    IN  IF is_some(pda_var)
        THEN Fmt("      {}: {},{}{}  \n",
                 <<account_camel, unwrap(pda_var)[2], writable_comment, signer_comment>>)
        ELSE IF is_signer_account(account)
        THEN Fmt("      {}: wallet.publicKey,{}{}\n",
                 <<account_camel, writable_comment, signer_comment>>)
        ELSE IF is_some(account.address)
        THEN IF unwrap(account.address) = SYSTEM_PROGRAM_ID
             THEN Fmt("      {}: anchor.web3.SystemProgram.programId,{}{}\n",
                      <<account_camel, writable_comment, signer_comment>>)
             ELSE Fmt("      {}: new PublicKey('{}'),{}{}\n",
                      <<account_camel, unwrap(account.address), writable_comment, signer_comment>>)
        ELSE Fmt("      {}: {}, // TODO: Add proper account{}{}\n",
                 <<account_camel, account_camel, writable_comment, signer_comment>>)

\* mutant: the last derived address is returned
return_text_last(pda_variables) ==
    IF pda_variables = <<>> THEN Lit("  return tx;\n")
    ELSE Fmt("  return {{ tx, pda: {} }};\n", <<pda_variables[Len(pda_variables)][2]>>)

(* lines 354-359: what the wrapper returns *)
return_text(pda_variables) ==
    IF pda_variables = <<>> THEN Lit("  return tx;\n")
    ELSE Fmt("  return {{ tx, pda: {} }};\n", <<pda_variables[1][2]>>)

generate_instruction_function(code, instruction, idl) ==
    LET function_name == snake_to_camel(instruction.name)
        head == <<Fmt("// {} on-chain\n", <<function_name>>),
                  Fmt("export const {} = async (wallet", <<function_name>>)>>
        arg_names == [k \in 1..Len(instruction.args) |-> instruction.args[k].name]
        all_params == all_params_loop(instruction, 1, Ok(arg_names))
    IN  IF ~all_params.ok THEN all_params
        ELSE
        LET signature == [k \in 1..Len(all_params.val) |-> Fmt(", {}", <<all_params.val[k]>>)]
                         \o <<Lit(") => {\n"), Lit("  const program = getProgram(wallet);\n")>>
            calls == pda_calls_loop(instruction, 1, Ok(<<code \o head \o signature, <<>>>>))
        IN  IF ~calls.ok THEN calls
            ELSE
            LET pda_variables == calls.val[2]
                invocation == <<Lit("  \n"),
                                Lit("  const tx = await program.methods\n"),
                                Fmt("    .{}(", <<snake_to_camel(instruction.name)>>)>>
                              \o method_args_text(instruction.args)
                              \o <<Lit(")\n"), Lit("    .accounts({\n")>>
                accounts == [k \in 1..Len(instruction.accounts) |->
                                account_entry(instruction.accounts[k], pda_variables)]
                tail == <<Lit("    })\n"), Lit("    .rpc();\n"), Lit("    \n")>>
                returned == return_text(pda_variables)
            IN  Ok(calls.val[1] \o invocation \o accounts \o tail
                   \o <<returned, Lit("};\n\n")>>)

\* mutant: the instructions are visited from the last to the first
RECURSIVE instructions_loop_reversed(_, _, _)
instructions_loop_reversed(idl, i, acc) ==
    IF i > Len(idl.instructions) \/ ~acc.ok THEN acc
    ELSE instructions_loop_reversed(idl, i + 1,
             generate_instruction_function(
                 acc.val, idl.instructions[Len(idl.instructions) - i + 1], idl))

\* lines 172-174
RECURSIVE instructions_loop(_, _, _)
instructions_loop(idl, i, acc) ==
    IF i > Len(idl.instructions) \/ ~acc.ok THEN acc
    ELSE instructions_loop(idl, i + 1,
                           generate_instruction_function(acc.val, idl.instructions[i], idl))

Program(program_id, network, idl_path) ==
    [version |-> <<"1">>, program_id |-> program_id, network |-> network, idl_path |-> idl_path]

starts_with(s, prefix) == Len(s) >= Len(prefix) /\ SubSeq(s, 1, Len(prefix)) = prefix

(* generate_ts_code, lines 132-144: the import path of the schema file *)
idl_import_path(program_name, program_info) ==
    IF is_some(program_info.idl_path)
    THEN LET custom_path == unwrap(program_info.idl_path) IN
         IF starts_with(custom_path, <<".", "/">>)
         THEN Fmt("../../{}", <<SubSeq(custom_path, 3, Len(custom_path))>>)
         ELSE IF starts_with(custom_path, <<"/">>) THEN Fmt("{}", <<custom_path>>)
         ELSE Fmt("../../{}", <<custom_path>>)
    ELSE Fmt("../idl/{}.json", <<program_name>>)

\* mutant: only "devnet" selects the devnet endpoint
rpc_binding_mainnet_default(network) ==
    IF network = S_devnet
    THEN <<Lit("// Devnet connection"), DEVNET_RPC_URL>>
    ELSE <<Lit("// Mainnet connection"), MAINNET_RPC_URL>>

(* lines 152-156: (network_comment, rpc_url) *)
rpc_binding(network) ==
    IF network = S_mainnet
    THEN <<Lit("// Mainnet connection"), MAINNET_RPC_URL>>
    ELSE IF network = S_devnet
    THEN <<Lit("// Devnet connection"), DEVNET_RPC_URL>>
    ELSE <<Lit("// Unknown network, defaulting to devnet"), DEVNET_RPC_URL>>

preamble(program_name, program_info) ==
    LET net == rpc_binding(program_info.network)
    IN  <<Lit("import * as anchor from '@coral-xyz/anchor';\n"),
          Lit("import { Connection, PublicKey } from '@solana/web3.js';\n"),
          Fmt("import idl from '{}';\n\n", <<idl_import_path(program_name, program_info)>>),
          Lit("// Your deployed program ID\n"),
          Fmt("const PROGRAM_ID = new PublicKey('{}');\n\n", <<program_info.program_id>>),
          Fmt("{}\n", <<net[1]>>),
          Fmt("const connection = new Connection('{}', 'confirmed');\n\n", <<net[2]>>),
          Lit("// Get program instance\n"),
          Lit("const getProgram = (wallet) => {\n"),
          Lit("  const provider = new anchor.AnchorProvider(connection, wallet, {\n"),
          Lit("    commitment: 'confirmed',\n"),
          Lit("  });\n"),
          Lit("  \n"),
          Lit("  return new anchor.Program(idl, provider);\n"),
          Lit("};\n\n")>>

generate_ts_code(idl, program_name, program_info) ==
    LET pdas == generate_pda_functions(preamble(program_name, program_info), idl)
    IN  instructions_loop(idl, 1, pdas)

(* ------------------------------------------------------------------ *)
(* Harness of the pure functions: a call applies one function to       *)
(* `input`; Feed passes a result back in as the next input.            *)
(* ------------------------------------------------------------------ *)
Chars == {"a", "A", "_", "1", "fi"}

Strings == SeqsUpTo(Chars, MaxStrLen)

Idle ==
    /\ solana_programs_file = None
    /\ idl_files = <<>>
    /\ idx = 0
    /\ files = <<>>
    /\ generated_count = 0
    /\ stdout = <<>>
    /\ ret = None
    /\ install = None
    /\ auth = None

InitCase ==
    /\ pc = "call"
    /\ input \in Strings
    /\ output = None
    /\ from = "caller"
    /\ Idle

CallCamel ==
    /\ pc = "call"
    /\ output' = [fn |-> "snake_to_camel", val |-> snake_to_camel(input)]
    /\ pc' = "ret"
    /\ UNCHANGED <<input, from, command_vars>>

CallPascal ==
    /\ pc = "call"
    /\ output' = [fn |-> "snake_to_pascal", val |-> snake_to_pascal(input)]
    /\ pc' = "ret"
    /\ UNCHANGED <<input, from, command_vars>>

Feed ==
    /\ pc = "ret"
    /\ from = "caller"
    /\ input' = output.val
    /\ from' = output.fn
    /\ output' = None
    /\ pc' = "call"
    /\ UNCHANGED command_vars

NextCase == CallCamel \/ CallPascal \/ Feed

SpecCase == InitCase /\ [][NextCase]_vars

(* ------------------------------------------------------------------ *)
(* Harness of the seed resolver                                        *)
(* ------------------------------------------------------------------ *)
N_c == <<"c">>

P_b_c == <<"b", ".", "c">>

B_v == <<118>>

S_weird == <<"w","e","i","r","d">>

SeedSet ==
    { IdlSeed(S_const, Some(B_v), None),
      IdlSeed(S_const, None, None),
      IdlSeed(S_account, None, Some(P_b_c)),
      IdlSeed(S_account, None, Some(N_c)),
      IdlSeed(S_account, None, None),
      IdlSeed(S_arg, None, Some(N_c)),
      IdlSeed(S_arg, None, None),
      IdlSeed(S_weird, None, Some(N_c)) }

ArgSet == { IdlArg(N_c, TypeString(S_u64)), IdlArg(N_c, TypeString(S_string)) }

InitSeeds ==
    /\ pc = "call"
    /\ input \in [seeds : SeqsUpTo(SeedSet, MaxSeeds), args : SeqsUpTo(ArgSet, MaxArgs)]
    /\ output = None
    /\ from = "caller"
    /\ Idle

CallParsePdaSeeds ==
    /\ pc = "call"
    /\ output' = [fn |-> "parse_pda_seeds", val |-> parse_pda_seeds(input.seeds, input.args)]
    /\ pc' = "ret"
    /\ UNCHANGED <<input, from, command_vars>>

NextSeeds == CallParsePdaSeeds

SpecSeeds == InitSeeds /\ [][NextSeeds]_vars

(* ------------------------------------------------------------------ *)
(* Harness of the seed encodings: every declared type of an argument   *)
(* ------------------------------------------------------------------ *)
MaxEncSeeds == 2

MaxEncArgs == 1

S_amount == <<"a","m","o","u","n","t">>

S_vault == <<"v","a","u","l","t">>

S_u128 == <<"u","1","2","8">>

S_f32 == <<"f","3","2">>

P_a_b_c == <<"a", ".", "b", ".", "c">>

\* the bytes of "vault", and bytes that are not UTF-8
B_vault == <<118, 97, 117, 108, 116>>

B_bad == <<255, 118>>

PrimitiveTypes ==
    { S_string, S_bytes, S_VecU8, S_u8, S_u16, S_i16, S_u32, S_i32, S_u64, S_i64,
      S_i8, S_bool }

AddressTypeNames == { S_publicKey, S_pubkey, S_Pubkey, S_PublicKey }

\* {"defined": "Pubkey"}, {"option": "u64"}, {"defined": 1}, {"vec": "u8"}
StructuredTypes ==
    { TypeObject(None, Some(JStr(S_Pubkey))),
      TypeObject(Some(JStr(S_u64)), None),
      TypeObject(None, Some(JOther)),
      TypeObject(None, None) }

EncTypes ==
    { TypeString(s) : s \in PrimitiveTypes \cup AddressTypeNames \cup {S_u128, S_f32} }
    \cup StructuredTypes

EncArgSet ==
    { IdlArg(N_c, ty) : ty \in EncTypes }
    \cup { IdlArg(S_amount, TypeString(S_u64)), IdlArg(P_b_c, TypeString(S_u16)) }

EncSeedSet ==
    { IdlSeed(S_const, Some(B_vault), None),
      IdlSeed(S_const, Some(B_bad), None),
      IdlSeed(S_account, None, Some(P_a_b_c)),
      IdlSeed(S_arg, None, Some(N_c)),
      IdlSeed(S_arg, None, Some(P_b_c)),
      IdlSeed(S_arg, None, Some(S_amount)) }

InitEnc ==
    /\ pc = "call"
    /\ input \in [seeds : SeqsUpTo(EncSeedSet, MaxEncSeeds),
                  args : SeqsUpTo(EncArgSet, MaxEncArgs)]
    /\ output = None
    /\ from = "caller"
    /\ Idle

NextEnc == CallParsePdaSeeds

SpecEnc == InitEnc /\ [][NextEnc]_vars

(* ------------------------------------------------------------------ *)
(* Harness of the account-role accessors                               *)
(* ------------------------------------------------------------------ *)
OptBool == {None, Some(TRUE), Some(FALSE)}

InitAcct ==
    /\ pc = "call"
    /\ \E w \in OptBool, s \in OptBool, m \in OptBool, g \in OptBool :
          input = IdlAccount(N_c, w, s, m, g, None, None)
    /\ output = None
    /\ from = "caller"
    /\ Idle

CallIsWritable ==
    /\ pc = "call"
    /\ output' = [fn |-> "is_writable", val |-> is_writable(input)]
    /\ pc' = "ret"
    /\ UNCHANGED <<input, from, command_vars>>

CallIsSignerAccount ==
    /\ pc = "call"
    /\ output' = [fn |-> "is_signer_account", val |-> is_signer_account(input)]
    /\ pc' = "ret"
    /\ UNCHANGED <<input, from, command_vars>>

NextAcct == CallIsWritable \/ CallIsSignerAccount

SpecAcct == InitAcct /\ [][NextAcct]_vars

(* ------------------------------------------------------------------ *)
(* Harness of the generator of one program                             *)
(* ------------------------------------------------------------------ *)
N_u_v == <<"u", "_", "v">>

Pda(seeds) == Some(IdlPda(seeds))

SeedConstV == IdlSeed(S_const, Some(B_v), None)

SeedAccountBC == IdlSeed(S_account, None, Some(P_b_c))

SeedAccountCreator == IdlSeed(S_account, None, Some(S_creator))

SeedArgC == IdlSeed(S_arg, None, Some(N_c))

SeedWeird == IdlSeed(S_weird, None, Some(N_c))

AccountSet ==
    { IdlAccount(N_c, None, None, None, None, None, Pda(<<SeedConstV, SeedAccountBC>>)),
      IdlAccount(N_c, None, None, None, None, None, Pda(<<SeedWeird>>)),
      IdlAccount(N_c, Some(TRUE), None, None, None, None, Pda(<<SeedAccountCreator, SeedArgC>>)),
      IdlAccount(N_u_v, None, None, None, None, None, Pda(<<SeedArgC>>)),
      IdlAccount(N_c, None, Some(TRUE), None, None, None, None) }

\* an instruction lists no account, one, or two different ones
AccountLists ==
    {<<>>} \cup {<<a>> : a \in AccountSet}
           \cup {ab \in AccountSet \X AccountSet : ab[1] # ab[2]}

ArgLists == {<<>>, <<IdlArg(N_c, TypeString(S_u64))>>}

InstrBodies == [accounts : AccountLists, args : ArgLists]

instruction_name(k) == <<"o", "p", "_", LowerLetters[k]>>

\* the schema whose k-th instruction has the k-th of the given bodies
schema_of(bodies) ==
    Idl([k \in 1..Len(bodies) |->
            IdlInstruction(instruction_name(k), bodies[k].accounts, bodies[k].args)])

N_prog == <<"m", "y", "_", "p">>

DevnetProgram == Program(<<"I", "d">>, S_devnet, None)

InitGen ==
    /\ pc = "call"
    /\ \E n \in 0..MaxInstr : \E bodies \in [1..n -> InstrBodies] :
          input = [idl |-> schema_of(bodies), program_name |-> N_prog,
                   program_info |-> DevnetProgram]
    /\ output = None
    /\ from = "caller"
    /\ Idle

CallGeneratePdaFunctions ==
    /\ pc = "call"
    /\ output' = [fn |-> "generate_pda_functions", val |-> generate_pda_functions(<<>>, input.idl)]
    /\ pc' = "ret"
    /\ UNCHANGED <<input, from, command_vars>>

CallGenerateTsCode ==
    /\ pc = "call"
    /\ output' = [fn |-> "generate_ts_code",
                  val |-> generate_ts_code(input.idl, input.program_name, input.program_info)]
    /\ pc' = "ret"
    /\ UNCHANGED <<input, from, command_vars>>

NextGen == CallGeneratePdaFunctions \/ CallGenerateTsCode

SpecGen == InitGen /\ [][NextGen]_vars

(* ------------------------------------------------------------------ *)
(* Harness of the wrapper of one instruction                           *)
(* ------------------------------------------------------------------ *)
N_d == <<"d">>

N_p_a == <<"p", "_", "a">>

N_r == <<"r">>

N_s == <<"s">>

N_t == <<"t">>

N_sys == <<"s", "y", "s">>

N_f == <<"f">>

N_x_y == <<"x", "_", "y">>

N_uV == <<"u", "V">>

OtherAddress == <<"A", "d", "r">>

SeedAccountD == IdlSeed(S_account, None, Some(N_d))

WrapperAccounts ==
    { \* derived and signer
      IdlAccount(N_p_a, None, Some(TRUE), None, None, None, Pda(<<SeedAccountCreator, SeedArgC>>)),
      \* derived, with two parameters
      IdlAccount(N_r, None, None, None, None, None, Pda(<<SeedAccountD, SeedAccountBC>>)),
      \* signer and fixed address
      IdlAccount(N_s, None, Some(TRUE), None, None, Some(OtherAddress), None),
      \* signer in the legacy field, writable
      IdlAccount(N_t, Some(TRUE), None, None, Some(TRUE), None, None),
      \* the system program
      IdlAccount(N_sys, None, None, None, None, Some(SYSTEM_PROGRAM_ID), None),
      \* another fixed address
      IdlAccount(N_f, None, None, None, None, Some(OtherAddress), None),
      \* nothing to resolve the account by
      IdlAccount(N_x_y, None, None, None, None, None, None),
      \* the name of a derived account, without a pda
      IdlAccount(N_p_a, None, None, None, None, None, None),
      \* derived accounts whose names differ in an underscore and a capital
      IdlAccount(N_u_v, None, None, None, None, None, Pda(<<SeedConstV>>)),
      IdlAccount(N_uV, None, None, None, None, None, Pda(<<SeedConstV>>)) }

WrapperArgs == { IdlArg(N_c, TypeString(S_u64)), IdlArg(N_d, TypeString(S_string)) }

InitWrapper ==
    /\ pc = "call"
    /\ \E accounts \in SeqsUpTo(WrapperAccounts, MaxAccounts),
          args \in SeqsUpTo(WrapperArgs, MaxWrapperArgs) :
          input = [idl |-> Idl(<<IdlInstruction(instruction_name(1), accounts, args)>>),
                   program_name |-> N_prog,
                   program_info |-> DevnetProgram]
    /\ output = None
    /\ from = "caller"
    /\ Idle

CallGenerateInstructionFunction ==
    /\ pc = "call"
    /\ Len(input.idl.instructions) >= 1
    /\ output' = [fn |-> "generate_instruction_function",
                  val |-> generate_instruction_function(<<>>, input.idl.instructions[1],
                                                        input.idl)]
    /\ pc' = "ret"
    /\ UNCHANGED <<input, from, command_vars>>

NextWrapper == CallGenerateInstructionFunction \/ CallGeneratePdaFunctions

SpecWrapper == InitWrapper /\ [][NextWrapper]_vars

(* ------------------------------------------------------------------ *)
(* Harness of the preamble: the metadata of the program varies         *)
(* ------------------------------------------------------------------ *)
Networks ==
    { S_mainnet, S_devnet, <<>>,
      <<"t","e","s","t","n","e","t">>,
      <<"M","a","i","n","n","e","t">>,
      <<"m","a","i","n","n","e","t","-","b","e","t","a">> }

IdlPaths ==
    { None,
      Some(<<".", "/", "i", ".", "j", "s", "o", "n">>),
      Some(<<"/", "i", ".", "j", "s", "o", "n">>),
      Some(<<"i", ".", "j", "s", "o", "n">>) }

ProgramIds == { <<"I", "d">>, SYSTEM_PROGRAM_ID }

Programs == { Program(id, network, idl_path) :
                id \in ProgramIds, network \in Networks, idl_path \in IdlPaths }

InitNet ==
    /\ pc = "call"
    /\ \E program_info \in Programs, accounts \in {<<>>, <<IdlAccount(N_f, None, None, None, None, None, Pda(<<SeedConstV>>))>>} :
          input = [idl |-> schema_of(<<[accounts |-> accounts, args |-> <<>>]>>),
                   program_name |-> N_prog,
                   program_info |-> program_info]
    /\ output = None
    /\ from = "caller"
    /\ Idle

NextNet == CallGenerateTsCode

SpecNet == InitNet /\ [][NextNet]_vars

(* ------------------------------------------------------------------ *)
(* generate_typescript_client                                          *)
(* ------------------------------------------------------------------ *)
S_PROGRAM_CLIENT_DIR == <<".","/","p","r","o","g","r","a","m","/","c","l","i","e","n","t">>

S_PROGRAM_IDL_DIR == <<".","/","p","r","o","g","r","a","m","/","i","d","l">>

S_dot_json == <<".","j","s","o","n">>

S_Client_ts == <<"C","l","i","e","n","t",".","t","s">>

\* line 37-38: the entries of `programs`, then of `devPrograms`
all_programs == unwrap(solana_programs_file).val

\* lines 54-55
idl_file_path_of(program_name, program_info) ==
    unwrap_or(program_info.idl_path, S_PROGRAM_IDL_DIR \o <<"/">> \o program_name \o S_dot_json)

\* lines 80-81
client_file_path_of(program_name) ==
    S_PROGRAM_CLIENT_DIR \o <<"/">> \o snake_to_pascal(program_name) \o S_Client_ts

program_name == all_programs[idx].name

program_info == all_programs[idx].info

idl_file_path == idl_file_path_of(program_name, program_info)

client_file_path == client_file_path_of(program_name)

generating_message ==
    Fmt("Generating client for {} ({}) from {}...",
        <<program_name, program_info.network, idl_file_path>>)

\* lines 32-34
ConfigNotFound ==
    /\ pc = "start"
    /\ solana_programs_file = None
    /\ ret' = Some(Err("ConfigNotFound",
                       Fmt("{} not found. Run 'solpm add <program>' first.",
                           <<Lit("SolanaPrograms.json")>>)))
    /\ pc' = "done"
    /\ UNCHANGED <<call_vars, install, auth, solana_programs_file, idl_files, idx, files, generated_count, stdout>>

\* line 37: the file exists and cannot be read
ConfigReadFailed ==
    /\ pc = "start"
    /\ solana_programs_file # None
    /\ ret' = Some(Err("Io", Lit("SolanaPrograms.json")))
    /\ pc' = "done"
    /\ UNCHANGED <<call_vars, install, auth, solana_programs_file, idl_files, idx, files, generated_count, stdout>>

\* line 41: the client directory cannot be created
ClientDirFailed ==
    /\ pc = "start"
    /\ solana_programs_file # None
    /\ unwrap(solana_programs_file).ok
    /\ ret' = Some(Err("Io", Lit("./program/client")))
    /\ pc' = "done"
    /\ UNCHANGED <<call_vars, install, auth, solana_programs_file, idl_files, idx, files, generated_count, stdout>>

\* line 38: the content is not a SolanaPrograms document
ConfigInvalid ==
    /\ pc = "start"
    /\ solana_programs_file # None
    /\ ~unwrap(solana_programs_file).ok
    /\ ret' = Some(Err("Json", Lit("SolanaPrograms.json")))
    /\ pc' = "done"
    /\ UNCHANGED <<call_vars, install, auth, solana_programs_file, idl_files, idx, files, generated_count, stdout>>

\* lines 37-50
StartBatch ==
    /\ pc = "start"
    /\ solana_programs_file # None
    /\ unwrap(solana_programs_file).ok
    /\ stdout' = Append(stdout, Lit("TypeScript Client Generation"))
    /\ generated_count' = 0
    /\ idx' = 1
    /\ pc' = "loop"
    /\ UNCHANGED <<call_vars, install, auth, solana_programs_file, idl_files, files, ret>>

\* mutant: the text is written as it is produced, so a failing generation
\* leaves the part produced before the failure in the client file
loop_body_writes_partial(io) ==
    IF idl_files[idl_file_path] = None
    THEN [outcome |-> "IdlNotFound", out |-> <<>>, files |-> files,
          result |-> Err("InvalidPath",
                         Fmt("IDL file not found for '{}': {}\nRun {} to fetch missing IDL files.",
                             <<program_name, idl_file_path, Lit("solpm install")>>))]
    ELSE IF io = "read fails"
    THEN [outcome |-> "IdlReadFailed", out |-> <<generating_message>>, files |-> files,
          result |-> Err("Io", Fmt("{}", <<idl_file_path>>))]
    ELSE IF ~unwrap(idl_files[idl_file_path]).ok
    THEN [outcome |-> "IdlInvalid", out |-> <<generating_message>>, files |-> files,
          result |-> Err("Json", Fmt("{}", <<idl_file_path>>))]
    ELSE LET write(ts_code) ==
             IF ~ts_code.ok
             THEN [outcome |-> "GenerateFailed", out |-> <<generating_message>>,
                   files |-> [files EXCEPT ![client_file_path] =
                                 Some(preamble(program_name, program_info))],
                   result |-> ts_code]
             ELSE IF io = "write fails"
             THEN [outcome |-> "WriteFailed", out |-> <<generating_message>>, files |-> files,
                   result |-> Err("Io", Fmt("{}", <<client_file_path>>))]
             ELSE IF io = "write fails, file truncated"
             THEN [outcome |-> "WriteFailed", out |-> <<generating_message>>,
                   files |-> [files EXCEPT ![client_file_path] = Some(<<>>)],
                   result |-> Err("Io", Fmt("{}", <<client_file_path>>))]
             ELSE [outcome |-> "Generated",
                   out |-> <<generating_message, Fmt("Generated {}", <<client_file_path>>)>>,
                   files |-> [files EXCEPT ![client_file_path] = Some(ts_code.val)],
                   result |-> Ok(<<>>)]
         IN  write(generate_ts_code(unwrap(idl_files[idl_file_path]).val,
                                    program_name, program_info))

(* Lines 52-89, one pass of the loop body for the program at idx, as the   *)
(* file system answers (io): what is printed, the client directory         *)
(* afterwards, and the error returned with `?` or Ok to go on.             *)
loop_body(io) ==
    IF idl_files[idl_file_path] = None
    THEN [outcome |-> "IdlNotFound", out |-> <<>>, files |-> files,
          result |-> Err("InvalidPath",
                         Fmt("IDL file not found for '{}': {}\nRun {} to fetch missing IDL files.",
                             <<program_name, idl_file_path, Lit("solpm install")>>))]
    ELSE IF io = "read fails"
    THEN [outcome |-> "IdlReadFailed", out |-> <<generating_message>>, files |-> files,
          result |-> Err("Io", Fmt("{}", <<idl_file_path>>))]
    ELSE IF ~unwrap(idl_files[idl_file_path]).ok
    THEN [outcome |-> "IdlInvalid", out |-> <<generating_message>>, files |-> files,
          result |-> Err("Json", Fmt("{}", <<idl_file_path>>))]
    ELSE LET write(ts_code) ==
             IF ~ts_code.ok
             THEN [outcome |-> "GenerateFailed", out |-> <<generating_message>>, files |-> files,
                   result |-> ts_code]
             ELSE IF io = "write fails"
             THEN [outcome |-> "WriteFailed", out |-> <<generating_message>>, files |-> files,
                   result |-> Err("Io", Fmt("{}", <<client_file_path>>))]
             ELSE IF io = "write fails, file truncated"
             THEN [outcome |-> "WriteFailed", out |-> <<generating_message>>,
                   files |-> [files EXCEPT ![client_file_path] = Some(<<>>)],
                   result |-> Err("Io", Fmt("{}", <<client_file_path>>))]
             ELSE [outcome |-> "Generated",
                   out |-> <<generating_message, Fmt("Generated {}", <<client_file_path>>)>>,
                   files |-> [files EXCEPT ![client_file_path] = Some(ts_code.val)],
                   result |-> Ok(<<>>)]
         IN  write(generate_ts_code(unwrap(idl_files[idl_file_path]).val,
                                    program_name, program_info))

IoAnswers == {"ok", "read fails", "write fails", "write fails, file truncated"}

\* a pass that ends the command: the error is returned (`?`, line 59)
ProgramFailed ==
    /\ pc = "loop"
    /\ idx <= Len(all_programs)
    /\ \E io \in IoAnswers :
          LET return(pass) ==
                  /\ ~pass.result.ok
                  /\ stdout' = stdout \o pass.out
                  /\ files' = pass.files
                  /\ ret' = Some(pass.result)
          IN  return(loop_body(io))
    /\ pc' = "done"
    /\ UNCHANGED <<call_vars, install, auth, solana_programs_file, idl_files, idx, generated_count>>

\* a pass that wrote the client file: the loop goes on (lines 84-89)
ProgramGenerated ==
    /\ pc = "loop"
    /\ idx <= Len(all_programs)
    /\ \E io \in IoAnswers :
          LET continue(pass) ==
                  /\ pass.result.ok
                  /\ stdout' = stdout \o pass.out
                  /\ files' = pass.files
          IN  continue(loop_body(io))
    /\ generated_count' = generated_count + 1
    /\ idx' = idx + 1
    /\ UNCHANGED <<call_vars, install, auth, pc, solana_programs_file, idl_files, ret>>

\* lines 91-101
Finish ==
    /\ pc = "loop"
    /\ idx > Len(all_programs)
    /\ stdout' = Append(stdout,
           IF generated_count = 0
           THEN Lit("No client files generated. Make sure IDL files are available.")
           ELSE Fmt("Generated {} client{}!",
                    <<generated_count, IF generated_count = 1 THEN Lit("") ELSE Lit("s")>>))
    /\ ret' = Some(Ok(<<>>))
    /\ pc' = "done"
    /\ UNCHANGED <<call_vars, install, auth, solana_programs_file, idl_files, idx, files, generated_count>>

(* The configured programs and the files on disk when the command starts. *)
N_q == <<"q">>

ProgramNames == {N_prog, N_q}

GoodIdl ==
    schema_of(<<[accounts |-> <<IdlAccount(N_c, None, None, None, None, None,
                                           Pda(<<SeedConstV, SeedAccountBC>>))>>,
                 args |-> <<>>]>>)

BadIdl ==
    schema_of(<<[accounts |-> <<IdlAccount(N_c, None, None, None, None, None,
                                           Pda(<<SeedWeird>>))>>,
                 args |-> <<>>]>>)

IdlFileStates == {None, Some(Err("Json", <<>>)), Some(Ok(GoodIdl)), Some(Ok(BadIdl))}

StaleClient == <<Lit("// written by an earlier run\n")>>

distinct_names(entries) ==
    \A i, j \in 1..Len(entries) : entries[i].name = entries[j].name => i = j

ProgramEntries == { [name |-> n, info |-> DevnetProgram] : n \in ProgramNames }

Init ==
    /\ pc = "start"
    /\ input = <<>>
    /\ output = None
    /\ from = "caller"
    /\ \/ /\ solana_programs_file \in {None, Some(Err("Json", <<>>))}
          /\ idl_files = <<>>
          /\ files = <<>>
       \/ \E programs \in SeqsUpTo(ProgramEntries, MaxPrograms),
             dev_programs \in SeqsUpTo(ProgramEntries, MaxPrograms) :
            /\ distinct_names(programs)
            /\ distinct_names(dev_programs)
            /\ Len(programs) + Len(dev_programs) <= MaxPrograms
            /\ solana_programs_file = Some(Ok(programs \o dev_programs))
            /\ LET all == programs \o dev_programs
                   idl_paths == { idl_file_path_of(all[k].name, all[k].info) : k \in 1..Len(all) }
                   client_paths == { client_file_path_of(all[k].name) : k \in 1..Len(all) }
               IN  /\ idl_files \in [idl_paths -> IdlFileStates]
                   /\ files \in [client_paths -> {None, Some(StaleClient)}]
    /\ idx = 0
    /\ generated_count = 0
    /\ stdout = <<>>
    /\ ret = None
    /\ install = None
    /\ auth = None

Next ==
    \/ ConfigNotFound
    \/ ConfigReadFailed
    \/ ConfigInvalid
    \/ ClientDirFailed
    \/ StartBatch
    \/ ProgramFailed
    \/ ProgramGenerated
    \/ Finish

Spec == Init /\ [][Next]_vars

(* ------------------------------------------------------------------ *)
(* install_dependencies (src/commands/install.rs)                      *)
(* ------------------------------------------------------------------ *)
S_GET_PROGRAM_URL == Lit("https://solpm-registry-production.up.railway.app/programs")

\* lines 88 and 165: the regular programs (the first install.programs_len
\* entries), then the dev programs
dependencies == install.solana_programs

package_name == dependencies[install.next].name

dependency_info == dependencies[install.next].info

dependency_idl_path == idl_file_path_of(package_name, dependency_info)

\* lines 98-99 and 147-149: the entry's idl_path is stored in the configuration
with_idl_path(solana_programs, k, path) ==
    [solana_programs EXCEPT ![k] =
        [name |-> @.name, info |-> [@.info EXCEPT !.idl_path = Some(path)]]]

\* lines 66-68
InstallConfigNotFound ==
    /\ pc = "install"
    /\ solana_programs_file = None
    /\ ret' = Some(Err("ConfigNotFound",
                       Fmt("{} not found. Run 'solpm add <program>' first.",
                           <<Lit("SolanaPrograms.json")>>)))
    /\ pc' = "installed"
    /\ UNCHANGED <<call_vars, install, auth, solana_programs_file, idl_files, idx, files,
                   generated_count, stdout>>

\* lines 71-72: the file cannot be read, or is not a SolanaPrograms document
InstallConfigFailed ==
    /\ pc = "install"
    /\ solana_programs_file # None
    /\ \E variant \in {"Io"} \cup (IF unwrap(solana_programs_file).ok THEN {} ELSE {"Json"}) :
          ret' = Some(Err(variant, Lit("SolanaPrograms.json")))
    /\ pc' = "installed"
    /\ UNCHANGED <<call_vars, install, auth, solana_programs_file, idl_files, idx, files,
                   generated_count, stdout>>

\* lines 71-85
InstallStart ==
    /\ pc = "install"
    /\ solana_programs_file # None
    /\ unwrap(solana_programs_file).ok
    /\ install' = [install EXCEPT
                      !.solana_programs = unwrap(solana_programs_file).val,
                      !.installed_count = 0,
                      !.total_count = 0,
                      !.programs_updated = FALSE,
                      !.progress_bar = Len(unwrap(solana_programs_file).val) > 1,
                      !.next = 1]
    /\ pc' = "deps"
    /\ UNCHANGED <<call_vars, auth, solana_programs_file, idl_files, idx, files, generated_count,
                   stdout, ret>>

\* lines 90 and 167: the locals after `total_count += 1`
counted == [install EXCEPT !.total_count = @ + 1]

(* Lines 89-162 and 166-239, one pass of a loop body for the dependency *)
(* at install.next, as the registry and the file system answer: what   *)
(* is printed, the schema files and the locals afterwards, and the     *)
(* error returned with `?` or Ok to go on with the next dependency.    *)
install_pass(answer, idl) ==
    LET installing == Fmt("Installing {} {}...", <<package_name, dependency_info.version>>)
        url == Fmt("{}/{}/latest/install", <<S_GET_PROGRAM_URL, package_name>>)
    IN
    IF idl_files[dependency_idl_path] # None
    THEN [out |-> <<>>, idl_files |-> idl_files,
          install |-> IF dependency_info.idl_path = None
                      THEN [counted EXCEPT
                               !.solana_programs =
                                   with_idl_path(@, install.next, dependency_idl_path),
                               !.programs_updated = TRUE]
                      ELSE counted,
          result |-> Ok(<<>>)]
    ELSE IF answer = "send fails"
    THEN [out |-> <<installing>>, idl_files |-> idl_files, install |-> counted,
          result |-> Err("Http", url)]
    ELSE IF answer = "status is no success"
    THEN [out |-> <<installing,
                    IF install.progress_bar
                    THEN Fmt("Failed to fetch {}", <<package_name>>)
                    ELSE Fmt("Failed to fetch {}: {}", <<package_name, Lit("404 Not Found")>>)>>,
          idl_files |-> idl_files, install |-> counted,
          result |-> Ok(<<>>)]
    ELSE IF answer = "body is no ProgramResponse"
    THEN [out |-> <<installing>>, idl_files |-> idl_files, install |-> counted,
          result |-> Err("Http", url)]
    ELSE IF answer \in {"create_dir_all fails", "write fails"}
    THEN [out |-> <<installing>>, idl_files |-> idl_files, install |-> counted,
          result |-> Err("Io", Fmt("{}", <<dependency_idl_path>>))]
    ELSE IF answer = "write fails, file truncated"
    THEN [out |-> <<installing>>,
          idl_files |-> [idl_files EXCEPT ![dependency_idl_path] = Some(Err("Json", <<>>))],
          install |-> counted,
          result |-> Err("Io", Fmt("{}", <<dependency_idl_path>>))]
    ELSE [out |-> <<installing>>
                  \o (IF install.progress_bar THEN <<>>
                      ELSE <<Fmt("{} {} - installed successfully",
                                 <<package_name, dependency_info.version>>)>>),
          idl_files |-> [idl_files EXCEPT ![dependency_idl_path] = Some(idl)],
          install |-> [counted EXCEPT
                          !.solana_programs =
                              with_idl_path(@, install.next, dependency_idl_path),
                          !.programs_updated = TRUE,
                          !.installed_count = @ + 1],
          result |-> Ok(<<>>)]

RegistryAnswers ==
    {"ok", "send fails", "status is no success", "body is no ProgramResponse",
     "create_dir_all fails", "write fails", "write fails, file truncated"}

\* ProgramResponse.idl is any JSON value: an Idl document or not
FetchedIdls == {Ok(GoodIdl), Ok(BadIdl), Err("Json", <<>>)}

\* a pass that ends the command: the error is returned (`?`)
DependencyAborts ==
    /\ pc = "deps"
    /\ install.next <= Len(dependencies)
    /\ \E answer \in RegistryAnswers, idl \in FetchedIdls :
          LET return(pass) ==
                  /\ ~pass.result.ok
                  /\ stdout' = stdout \o pass.out
                  /\ idl_files' = pass.idl_files
                  /\ install' = pass.install
                  /\ ret' = Some(pass.result)
          IN  return(install_pass(answer, idl))
    /\ pc' = "installed"
    /\ UNCHANGED <<call_vars, auth, solana_programs_file, idx, files, generated_count>>

\* a pass that goes on with the next dependency (`continue` or the end of
\* the loop body)
DependencyDone ==
    /\ pc = "deps"
    /\ install.next <= Len(dependencies)
    /\ \E answer \in RegistryAnswers, idl \in FetchedIdls :
          LET continue(pass) ==
                  /\ pass.result.ok
                  /\ stdout' = stdout \o pass.out
                  /\ idl_files' = pass.idl_files
                  /\ install' = [pass.install EXCEPT !.next = @ + 1]
          IN  continue(install_pass(answer, idl))
    /\ UNCHANGED <<call_vars, auth, pc, solana_programs_file, idx, files, generated_count, ret>>

plural(n) == IF n = 1 THEN Lit("") ELSE Lit("s")

\* lines 248-274
install_summary ==
    IF install.progress_bar
    THEN IF install.installed_count > 0
         THEN Fmt("Installed {} program{}",
                  <<install.installed_count, plural(install.installed_count)>>)
         ELSE Lit("All programs up to date")
    ELSE IF install.total_count = 0
    THEN Fmt("No programs found in {}", <<Lit("SolanaPrograms.json")>>)
    ELSE IF install.installed_count = 0
    THEN Fmt("Up to date, {} program{} installed",
             <<install.total_count, plural(install.total_count)>>)
    ELSE Fmt("Added {} program{}, {} program{} total",
             <<install.installed_count, plural(install.installed_count),
               install.total_count, plural(install.total_count)>>)

\* lines 242-245: the configuration cannot be written back
InstallWriteBackFailed ==
    /\ pc = "deps"
    /\ install.next > Len(dependencies)
    /\ install.programs_updated
    /\ ret' = Some(Err("Io", Lit("SolanaPrograms.json")))
    /\ pc' = "installed"
    /\ UNCHANGED <<call_vars, install, auth, solana_programs_file, idl_files, idx, files,
                   generated_count, stdout>>

\* lines 241-287, after the loops
InstallFinish ==
    /\ pc = "deps"
    /\ install.next > Len(dependencies)
    /\ solana_programs_file' = IF install.programs_updated
                               THEN Some(Ok(install.solana_programs))
                               ELSE solana_programs_file
    /\ IF install.codegen
       THEN /\ stdout' = stdout \o <<install_summary,
                                     Lit("\nGenerating TypeScript client code...")>>
            /\ pc' = "start"
            /\ ret' = ret
       ELSE /\ stdout' = Append(stdout, install_summary)
            /\ pc' = "installed"
            /\ ret' = Some(Ok(<<>>))
    /\ UNCHANGED <<call_vars, install, auth, idl_files, idx, files, generated_count>>

\* lines 279-287: generate_typescript_client has returned
InstallCodegenReturned ==
    /\ pc = "done"
    /\ install # None
    /\ stdout' = IF unwrap(ret).ok THEN stdout
                 ELSE Append(stdout, Fmt("Failed to generate TypeScript client: {}",
                                         <<unwrap(ret).err.variant>>))
    /\ ret' = Some(Ok(<<>>))
    /\ pc' = "installed"
    /\ UNCHANGED <<call_vars, install, auth, solana_programs_file, idl_files, idx, files,
                   generated_count>>

InitInstall ==
    /\ pc = "install"
    /\ input = <<>>
    /\ output = None
    /\ from = "caller"
    /\ \/ /\ solana_programs_file \in {None, Some(Err("Json", <<>>))}
          /\ idl_files = <<>>
          /\ files = <<>>
          /\ \E codegen \in BOOLEAN :
                install = [codegen |-> codegen, solana_programs |-> <<>>, programs_len |-> 0,
                           next |-> 0, installed_count |-> 0, total_count |-> 0,
                           programs_updated |-> FALSE, progress_bar |-> FALSE]
       \/ \E programs \in SeqsUpTo(ProgramEntries, MaxPrograms),
             dev_programs \in SeqsUpTo(ProgramEntries, MaxPrograms),
             codegen \in BOOLEAN :
            /\ distinct_names(programs)
            /\ distinct_names(dev_programs)
            /\ Len(programs) + Len(dev_programs) <= MaxPrograms
            /\ solana_programs_file = Some(Ok(programs \o dev_programs))
            /\ install = [codegen |-> codegen, solana_programs |-> <<>>,
                          programs_len |-> Len(programs),
                          next |-> 0, installed_count |-> 0, total_count |-> 0,
                          programs_updated |-> FALSE, progress_bar |-> FALSE]
            /\ LET all == programs \o dev_programs
                   idl_paths == { idl_file_path_of(all[k].name, all[k].info) : k \in 1..Len(all) }
                   client_paths == { client_file_path_of(all[k].name) : k \in 1..Len(all) }
               IN  /\ idl_files \in [idl_paths -> {None, Some(Ok(GoodIdl))}]
                   /\ files = [path \in client_paths |-> None]
    /\ idx = 0
    /\ generated_count = 0
    /\ stdout = <<>>
    /\ ret = None
    /\ auth = None

NextInstall ==
    \/ InstallConfigNotFound
    \/ InstallConfigFailed
    \/ InstallStart
    \/ DependencyAborts
    \/ DependencyDone
    \/ InstallWriteBackFailed
    \/ InstallFinish
    \/ ConfigReadFailed
    \/ ClientDirFailed
    \/ StartBatch
    \/ ProgramFailed
    \/ ProgramGenerated
    \/ Finish
    \/ InstallCodegenReturned

SpecInstall == InitInstall /\ [][NextInstall]_vars

(* ------------------------------------------------------------------ *)
(* login (auth.rs): the token, its verification by the registry, the   *)
(* encryption password, and the credentials file.  `files` is the      *)
(* configuration directory; a file's content is the sequence of the    *)
(* JSON documents in it, empty for an empty file.                      *)
(* ------------------------------------------------------------------ *)
S_spr_ == <<"s","p","r","_">>

S_publish_programs == <<"p","u","b","l","i","s","h",":","p","r","o","g","r","a","m","s">>

S_credentials_path ==
    <<"~","/",".","s","o","l","p","m","/","c","r","e","d","e","n","t","i","a","l","s",".","j","s","o","n">>

\* str::trim, for strings whose only whitespace is the space
trim(s) ==
    LET keep == { k \in 1..Len(s) : s[k] # " " }
    IN  IF keep = {} THEN <<>>
        ELSE SubSeq(s, CHOOSE k \in keep : \A m \in keep : k <= m,
                       CHOOSE k \in keep : \A m \in keep : m <= k)

\* lines 99-122: the Credentials of a token under a password, for the
\* salt and the nonce the random generator gave
encrypt_token(token, password, salt, nonce) ==
    [encrypted_token |-> [plaintext |-> token, key |-> <<password, salt>>, nonce |-> nonce],
     salt |-> salt, nonce |-> nonce]

\* mutant: the permission list is not looked at
permitted_always(auth_response) == TRUE

\* line 240
permitted(auth_response) == contains(auth_response.permissions, S_publish_programs)

login_error(variant, msg) ==
    /\ ret' = Some(Err(variant, msg))
    /\ pc' = "done"

\* lines 188-205
LoginReadToken ==
    /\ pc = "login"
    /\ stdout' = stdout \o <<Lit("Registry API Token Required"),
                             Lit("5. Copy the generated token (starts with 'spr_')\n")>>
    /\ IF is_some(auth.token_arg)
       THEN /\ auth' = [auth EXCEPT !.token = trim(unwrap(auth.token_arg))]
            /\ pc' = "token"
            /\ UNCHANGED ret
       ELSE \E answer \in {None, Some(<<" ">>), Some(<<" ">> \o S_spr_ \o <<"t">>),
                           Some(<<"t", "o", "k">>)} :
                IF is_some(answer) /\ trim(unwrap(answer)) # <<>>
                THEN /\ auth' = [auth EXCEPT !.token = trim(unwrap(answer))]
                     /\ pc' = "token"
                     /\ UNCHANGED ret
                ELSE /\ login_error("InvalidPath", Lit("Token is required"))
                     /\ UNCHANGED auth
    /\ UNCHANGED <<call_vars, install, solana_programs_file, idl_files, idx, files,
                   generated_count>>

\* lines 207-217
LoginCheckFormat ==
    /\ pc = "token"
    /\ IF ~starts_with(auth.token, S_spr_)
       THEN /\ login_error("UploadFailed",
                  Lit("Invalid API token format. Registry API tokens should start with 'spr_'."))
            /\ UNCHANGED stdout
       ELSE /\ stdout' = Append(stdout, Lit("Validating token..."))
            /\ pc' = "verify"
            /\ UNCHANGED ret
    /\ UNCHANGED <<call_vars, install, auth, solana_programs_file, idl_files, idx, files,
                   generated_count>>

\* what the registry may answer to the verification request
RegistryReplies ==
    { [kind |-> k, valid |-> FALSE, permissions |-> <<>>] :
        k \in {"no connection", "status not success", "body not JSON"} }
    \cup { [kind |-> "verdict", valid |-> v, permissions |-> p] :
             v \in BOOLEAN,
             p \in { <<>>, <<(<<"r","e","a","d">>)>>, <<S_publish_programs>>,
                     <<(<<"r","e","a","d">>), S_publish_programs>> } }

\* lines 219-242
LoginVerify ==
    /\ pc = "verify"
    /\ \E reply \in RegistryReplies :
          IF reply.kind = "no connection"
          THEN /\ login_error("UploadFailed",
                     Fmt("Failed to connect to registry server: {}. Make sure the server is running at {}",
                         <<Lit("error"), Lit("AUTH_VERIFY_URL")>>))
               /\ UNCHANGED auth
          ELSE IF reply.kind = "status not success"
          THEN /\ login_error("UploadFailed",
                     Fmt("API token validation failed ({}): {}. Make sure your token is correct and the server is running.",
                         <<Lit("status"), Lit("error_text")>>))
               /\ UNCHANGED auth
          ELSE IF reply.kind = "body not JSON"
          THEN /\ login_error("Http", Lit("response.json()"))
               /\ UNCHANGED auth
          ELSE IF ~reply.valid
          THEN /\ login_error("UploadFailed",
                     Lit("Token verification failed. Please check your token and try again."))
               /\ UNCHANGED auth
          ELSE IF ~permitted(reply)
          THEN /\ login_error("UploadFailed",
                     Lit("Token does not have required 'publish:programs' permission."))
               /\ UNCHANGED auth
          ELSE /\ auth' = [auth EXCEPT !.auth_response = Some(reply)]
               /\ pc' = "password"
               /\ UNCHANGED ret
    /\ UNCHANGED <<call_vars, install, solana_programs_file, idl_files, idx, files,
                   generated_count, stdout>>

\* what a password prompt may give: a read error, or the line entered
PasswordEntries == {None, Some(<<>>), Some(<<" ">>), Some(<<"p">>), Some(<<"q">>)}

\* lines 244-254
LoginPassword ==
    /\ pc = "password"
    /\ stdout' = Append(stdout, Lit("Encryption Password Setup"))
    /\ \E entry \in PasswordEntries :
          IF ~is_some(entry)
          THEN /\ login_error("InvalidPath", Fmt("Failed to read password: {}", <<Lit("error")>>))
               /\ UNCHANGED auth
          ELSE IF trim(unwrap(entry)) = <<>>
          THEN /\ login_error("InvalidPath", Lit("Password cannot be empty"))
               /\ UNCHANGED auth
          ELSE /\ auth' = [auth EXCEPT !.password = entry]
               /\ pc' = "confirm"
               /\ UNCHANGED ret
    /\ UNCHANGED <<call_vars, install, solana_programs_file, idl_files, idx, files,
                   generated_count>>

\* lines 256-261
LoginConfirm ==
    /\ pc = "confirm"
    /\ \E entry \in PasswordEntries :
          IF ~is_some(entry)
          THEN /\ login_error("InvalidPath", Fmt("Failed to read password: {}", <<Lit("error")>>))
               /\ UNCHANGED auth
          ELSE IF unwrap(auth.password) # unwrap(entry)
          THEN /\ login_error("InvalidPath", Lit("Passwords do not match"))
               /\ UNCHANGED auth
          ELSE /\ auth' = [auth EXCEPT !.confirm_password = entry]
               /\ pc' = "save"
               /\ UNCHANGED ret
    /\ UNCHANGED <<call_vars, install, solana_programs_file, idl_files, idx, files,
                   generated_count, stdout>>

\* how the configuration directory may answer (lines 51-63 and 273)
SaveAnswers ==
    {"ok", "no home directory", "create_dir_all fails", "write fails",
     "write fails, file truncated"}

\* lines 263-282; the random salt and nonce are drawn from two values each
LoginSave ==
    /\ pc = "save"
    /\ \E io \in SaveAnswers, salt \in 1..2, nonce \in 1..2 :
          IF io = "no home directory"
          THEN /\ login_error("InvalidPath", Lit("Could not find home directory"))
               /\ UNCHANGED <<files, stdout>>
          ELSE IF io \in {"create_dir_all fails", "write fails"}
          THEN /\ login_error("Io", Lit("credentials.json"))
               /\ UNCHANGED <<files, stdout>>
          ELSE IF io = "write fails, file truncated"
          THEN /\ login_error("Io", Lit("credentials.json"))
               /\ files' = [files EXCEPT ![S_credentials_path] = Some(<<>>)]
               /\ UNCHANGED stdout
          ELSE /\ files' = [files EXCEPT ![S_credentials_path] =
                               Some(<<encrypt_token(auth.token, unwrap(auth.password),
                                                    salt, nonce)>>)]
               /\ stdout' = stdout \o
                     <<Lit("Successfully authenticated with API token"),
                       Fmt("Token permissions: {}",
                           <<join(unwrap(auth.auth_response).permissions, S_comma_space)>>),
                       Fmt("Encrypted credentials saved to: {}", <<S_credentials_path>>)>>
               /\ ret' = Some(Ok(<<>>))
               /\ pc' = "done"
    /\ UNCHANGED <<call_vars, install, auth, solana_programs_file, idl_files, idx,
                   generated_count>>

\* the credentials an earlier login stored
StoredCredentials == encrypt_token(S_spr_ \o <<"o">>, <<"o">>, 1, 1)

TokenArgs ==
    {None, Some(<<>>), Some(S_spr_ \o <<"t">>), Some(<<" ">> \o S_spr_ \o <<"t", " ">>),
     Some(<<"t", "o", "k">>), Some(<<"x">> \o S_spr_)}

InitLogin ==
    /\ pc = "login"
    /\ input = <<>>
    /\ output = None
    /\ from = "caller"
    /\ solana_programs_file = None
    /\ idl_files = <<>>
    /\ idx = 0
    /\ files \in [{S_credentials_path} -> {None, Some(<<StoredCredentials>>)}]
    /\ generated_count = 0
    /\ stdout = <<>>
    /\ ret = None
    /\ install = None
    /\ \E token_arg \in TokenArgs :
          auth = [token_arg |-> token_arg, token |-> <<>>, auth_response |-> None,
                  password |-> None, confirm_password |-> None]

NextLogin ==
    \/ LoginReadToken
    \/ LoginCheckFormat
    \/ LoginVerify
    \/ LoginPassword
    \/ LoginConfirm
    \/ LoginSave

SpecLogin == InitLogin /\ [][NextLogin]_vars

(* ================================================================== *)
(* Claims                                                              *)
(* ================================================================== *)

config_is_valid == solana_programs_file # None /\ unwrap(solana_programs_file).ok

\* C1: in generate_typescript_client a failure for one program is caught
\* and the other programs are still processed; it does not abort the
\* batch.  So a command that has entered the loop over the programs ends
\* only after the loop has reached the last configured program.
C1_FailureDoesNotAbortBatch ==
    (pc = "done" /\ idx >= 1) => idx >= Len(all_programs)

generation_fails ==
    /\ pc = "loop"
    /\ idx <= Len(all_programs)
    /\ idl_files[idl_file_path] # None
    /\ unwrap(idl_files[idl_file_path]).ok
    /\ ~generate_ts_code(unwrap(idl_files[idl_file_path]).val, program_name, program_info).ok

\* C2: generation fails atomically per program: a step taken for a program
\* whose generate_ts_code fails creates and modifies no client file.
C2_FailedGenerationWritesNothing ==
    [][generation_fails => files' = files]_vars

\* the second program's generation failed after the first one's client was
\* written, and the second program's earlier client file is still in place
C2_Witness ==
    /\ pc = "done"
    /\ config_is_valid
    /\ idx = 2
    /\ generated_count = 1
    /\ ret # None
    /\ ~unwrap(ret).ok
    /\ unwrap(ret).err.variant = "InvalidIdl"
    /\ client_file_path # client_file_path_of(all_programs[1].name)
    /\ files[client_file_path] = Some(StaleClient)

is_upper(c) == \E i \in 1..26 : UpperLetters[i] = c

lower_all(w) == concat([k \in 1..Len(w) |-> to_lowercase(w[k])])

cap_first(w) == IF w = <<>> THEN <<>> ELSE <<to_uppercase(w[1])[1]>> \o Tail(w)

\* C9 (as stated): snake_to_camel returns the `_`-separated segments
\* concatenated, the first segment lowercased and the first character of
\* each later segment capitalized.
C9_CamelLowersFirstSegment ==
    (pc = "ret" /\ output.fn = "snake_to_camel") =>
        LET w == split(input, "_")
        IN  output.val = lower_all(w[1])
                \o concat([k \in 1..(Len(w) - 1) |-> cap_first(w[k + 1])])

\* C9 (amended): snake_to_camel returns the `_`-separated segments
\* concatenated, the first segment unchanged and the first character of
\* each later segment replaced by the first character of its uppercase
\* mapping.
C9_CamelKeepsFirstSegment ==
    (pc = "ret" /\ output.fn = "snake_to_camel") =>
        LET w == split(input, "_")
        IN  output.val = w[1]
                \o concat([k \in 1..(Len(w) - 1) |-> cap_first(w[k + 1])])

\* C9 witness: a call whose first segment holds an uppercase letter and
\* whose later segment starts with a lowercase letter has returned.
C9_Witness ==
    /\ pc = "ret"
    /\ output.fn = "snake_to_camel"
    /\ input = <<"A", "_", "a", "a">>
    /\ output.val = <<"A", "A", "a">>

same_up_to_first_case(x, y) ==
    /\ x # <<>>
    /\ y # <<>>
    /\ to_uppercase(x[1]) \o Tail(x) = to_uppercase(y[1]) \o Tail(y)

\* C10: each converter returns its own output unchanged (f(f(s)) = f(s)),
\* and on a non-empty input without `_` the results of snake_to_camel and
\* snake_to_pascal differ at most in the case of the first character.
C10_IdempotentAndFirstCase ==
    (pc = "ret") =>
        /\ (from = output.fn => output.val = input)
        /\ (input # <<>> /\ ~contains(input, "_") /\ output.fn = "snake_to_camel")
              => same_up_to_first_case(output.val, snake_to_pascal(input))
        /\ (input # <<>> /\ ~contains(input, "_") /\ output.fn = "snake_to_pascal")
              => same_up_to_first_case(snake_to_camel(input), output.val)

\* C10 witness: snake_to_pascal was applied to a result of snake_to_pascal
\* that differs from what snake_to_camel gives for it.
C10_Witness ==
    /\ pc = "ret"
    /\ from = "snake_to_pascal"
    /\ output.fn = "snake_to_pascal"
    /\ Len(input) >= 2
    /\ is_upper(input[1])
    /\ output.val = input

\* the parameter name a seed refers to, if any
seed_name(seed) ==
    IF seed.kind = S_account /\ is_some(seed.path)
    THEN LET parts == split(unwrap(seed.path), ".") IN Some(parts[Len(parts)])
    ELSE IF seed.kind = S_arg /\ is_some(seed.path) THEN seed.path
    ELSE None

seed_names(seeds) == concat([k \in 1..Len(seeds) |-> seed_name(seeds[k])])

\* the names of a list without those that occurred earlier in it
first_occurrences(names) ==
    LET keep == { k \in 1..Len(names) : \A m \in 1..(k - 1) : names[m] # names[k] }
        RECURSIVE pick(_)
        pick(k) == IF k > Len(names) THEN <<>>
                   ELSE (IF k \in keep THEN <<names[k]>> ELSE <<>>) \o pick(k + 1)
    IN  pick(1)

no_duplicates(v) == \A i, j \in 1..Len(v) : v[i] = v[j] => i = j

known_kind(seed) == seed.kind \in {S_const, S_account, S_arg}

\* C6: for a seed list whose kinds are all const, account or arg,
\* parse_pda_seeds returns one buffer expression per seed.
C6_OneBufferPerSeed ==
    (/\ pc = "ret"
     /\ output.fn = "parse_pda_seeds"
     /\ \A k \in 1..Len(input.seeds) : known_kind(input.seeds[k])) =>
        /\ output.val.ok
        /\ Len(output.val.val[2]) = Len(input.seeds)

\* C8: is_writable is `writable` when present, else `isMut` when present,
\* else false; is_signer_account likewise with `signer` and `isSigner`.
C8_NewNameWins ==
    (pc = "ret") =>
        /\ output.fn = "is_writable" =>
              output.val = IF input.writable # None THEN input.writable[1]
                           ELSE IF input.is_mut # None THEN input.is_mut[1]
                           ELSE FALSE
        /\ output.fn = "is_signer_account" =>
              output.val = IF input.signer # None THEN input.signer[1]
                           ELSE IF input.is_signer # None THEN input.is_signer[1]
                           ELSE FALSE

\* C8 witness: `writable: false` with `isMut: true` resolved to false.
C8_Witness ==
    /\ pc = "ret"
    /\ output.fn = "is_writable"
    /\ input.writable = Some(FALSE)
    /\ input.is_mut = Some(TRUE)
    /\ output.val = FALSE

\* the derived accounts of a schema, as <<instruction index, account index>>
derived_accounts(idl) ==
    UNION { { <<i, j>> : j \in { m \in 1..Len(idl.instructions[i].accounts) :
                                   is_some(idl.instructions[i].accounts[m].pda) } }
            : i \in 1..Len(idl.instructions) }

account_at(idl, ij) == idl.instructions[ij[1]].accounts[ij[2]]

derived_names(idl) == { account_at(idl, ij).name : ij \in derived_accounts(idl) }

positions(code, template) == { k \in 1..Len(code) : code[k].tpl = template }

\* C3: generate_pda_functions emits exactly one derivation function per
\* distinct name among the accounts that carry a Derived-Address-Spec,
\* however many instructions reference an account of that name.
C3_OneFunctionPerName ==
    (pc = "ret" /\ output.fn = "generate_pda_functions" /\ output.val.ok) =>
        LET code == output.val.val IN
        /\ \A n \in derived_names(input.idl) :
              Cardinality({ k \in positions(code, "// Get {} PDA\n") : code[k].vals[1] = n }) = 1
        /\ Cardinality(positions(code, "// Get {} PDA\n")) = Cardinality(derived_names(input.idl))
        /\ Cardinality(positions(code, "export const {} = ({}) => {{\n"))
              = Cardinality(derived_names(input.idl))

\* C3 witness: two instructions each carry a derived account named `c`
\* and generate_pda_functions returned one function for it.
C3_Witness ==
    /\ pc = "ret"
    /\ output.fn = "generate_pda_functions"
    /\ output.val.ok
    /\ Len(input.idl.instructions) = 2
    /\ \A i \in 1..2 : \E ij \in derived_accounts(input.idl) :
          ij[1] = i /\ account_at(input.idl, ij).name = N_c
    /\ Cardinality(positions(output.val.val, "export const {} = ({}) => {{\n")) = 1

\* split of a string on a separator of any length
RECURSIVE split_on_from(_, _, _, _)
split_on_from(s, sep, i, cur) ==
    IF i > Len(s) THEN <<cur>>
    ELSE LET hit == i + Len(sep) - 1 <= Len(s) /\ SubSeq(s, i, i + Len(sep) - 1) = sep
         IN  (IF hit THEN <<cur>> ELSE <<>>)
             \o split_on_from(s, sep, IF hit THEN i + Len(sep) ELSE i + 1,
                              IF hit THEN <<>> ELSE Append(cur, s[i]))

split_on(s, sep) == split_on_from(s, sep, 1, <<>>)

same_seeds_per_name(idl) ==
    \A x, y \in derived_accounts(idl) :
        account_at(idl, x).name = account_at(idl, y).name
            => account_at(idl, x).pda = account_at(idl, y).pda

\* the definition emitted for the derived account name n: the position of
\* its `export const` line
definitions_of(code, n) ==
    { k \in positions(code, "export const {} = ({}) => {{\n") :
        k > 1 /\ code[k - 1] = Fmt("// Get {} PDA\n", <<n>>) }

\* the call sites of the wrapper of instruction i, in order of the accounts
wrapper_start(code, i) ==
    CHOOSE k \in positions(code, "export const {} = async (wallet") :
        Cardinality({ m \in positions(code, "export const {} = async (wallet") : m <= k }) = i

call_sites(code, idl, i) ==
    LET from_k == wrapper_start(code, i)
        to_k == IF i = Len(idl.instructions) THEN Len(code) ELSE wrapper_start(code, i + 1)
    IN  { k \in positions(code, "  const [{}] = {}({});\n") : from_k < k /\ k <= to_k }

call_matches_definition(call, def) ==
    LET passed == split_on(call.vals[3], S_comma_space)
        declared == split_on(def.vals[2], S_comma_space)
    IN  /\ call.vals[2] = def.vals[1]
        /\ Len(passed) = Len(declared)
        /\ \A k \in 1..Len(declared) :
              passed[k] = IF declared[k] = S_creator THEN S_wallet_publicKey ELSE declared[k]

\* C4: when same-named derived accounts have identical seed lists, the
\* output holds one derivation function per derived name and one wrapper
\* per instruction, and every derivation call of a wrapper names the
\* function defined for its account and passes as many arguments as that
\* definition has parameters, in the same order.
C4_CallsMatchTheOneDefinition ==
    (/\ pc = "ret"
     /\ output.fn = "generate_ts_code"
     /\ output.val.ok
     /\ same_seeds_per_name(input.idl)) =>
        LET code == output.val.val
            idl == input.idl
        IN
        /\ \A n \in derived_names(idl) : Cardinality(definitions_of(code, n)) = 1
        /\ Cardinality(positions(code, "export const {} = async (wallet")) = Len(idl.instructions)
        /\ \A i \in 1..Len(idl.instructions) :
              /\ Cardinality(call_sites(code, idl, i))
                    = Cardinality({ ij \in derived_accounts(idl) : ij[1] = i })
              /\ \A ij \in derived_accounts(idl) : ij[1] = i =>
                    \E k \in call_sites(code, idl, i) :
                        /\ Cardinality({ m \in call_sites(code, idl, i) : m <= k })
                              = Cardinality({ x \in derived_accounts(idl) :
                                                 x[1] = i /\ x[2] <= ij[2] })
                        /\ \A d \in definitions_of(code, account_at(idl, ij).name) :
                              call_matches_definition(code[k], code[d])

\* C4 witness: two instructions reference the derived account `c` with the
\* same seeds (one of them `creator`), and both wrappers were generated.
C4_Witness ==
    /\ pc = "ret"
    /\ output.fn = "generate_ts_code"
    /\ output.val.ok
    /\ same_seeds_per_name(input.idl)
    /\ Len(input.idl.instructions) = 2
    /\ \A i \in 1..2 :
          /\ Len(input.idl.instructions[i].accounts) >= 1
          /\ input.idl.instructions[i].accounts[1].name = N_c
          /\ input.idl.instructions[i].accounts[1].pda = Pda(<<SeedAccountCreator, SeedArgC>>)
    /\ Cardinality(positions(output.val.val, "  const [{}] = {}({});\n")) = 2

\* the kinds outside {const, account, arg} among the seeds of a schema
unknown_seed_kinds(idl) ==
    UNION { { account_at(idl, ij).pda[1].seeds[k].kind :
                k \in { m \in 1..Len(account_at(idl, ij).pda[1].seeds) :
                          ~known_kind(account_at(idl, ij).pda[1].seeds[m]) } }
            : ij \in derived_accounts(idl) }

\* C7: when a seed of a derived account of an instruction has a kind
\* outside {const, account, arg}, generate_ts_code fails with InvalidIdl
\* naming an unknown kind, also when the account's name was deduplicated.
C7_UnknownKindFails ==
    (/\ pc = "ret"
     /\ output.fn = "generate_ts_code"
     /\ unknown_seed_kinds(input.idl) # {}) =>
        /\ ~output.val.ok
        /\ output.val.err.variant = "InvalidIdl"
        /\ \E kind \in unknown_seed_kinds(input.idl) :
              output.val.err.msg = Fmt("Unknown seed kind: {}", <<kind>>)

\* C7 witness: the second instruction's account `c` has a seed of unknown
\* kind, the first instruction's account `c` has none, and generation failed.
C7_Witness ==
    /\ pc = "ret"
    /\ output.fn = "generate_ts_code"
    /\ Len(input.idl.instructions) = 2
    /\ input.idl.instructions[1].accounts = <<CHOOSE a \in AccountSet :
                                                a.pda = Pda(<<SeedConstV, SeedAccountBC>>)>>
    /\ input.idl.instructions[2].accounts = <<CHOOSE a \in AccountSet :
                                                a.pda = Pda(<<SeedWeird>>)>>
    /\ ~output.val.ok

\* the instruction whose wrapper was generated, and the wrapper's text
wrapped_instruction == input.idl.instructions[1]

wrapper_returned ==
    pc = "ret" /\ output.fn = "generate_instruction_function" /\ output.val.ok

first_position(code, template) ==
    CHOOSE k \in positions(code, template) : \A m \in positions(code, template) : k <= m

\* the parameters a wrapper declares after `wallet`
declared_params(code) ==
    [k \in 1..(first_position(code, ") => {\n") - 3) |-> code[k + 2].vals[1]]

\* the names the seeds of the derived accounts of an instruction refer to,
\* in order of the accounts and of their seeds
derivation_names(instruction) ==
    concat([j \in 1..Len(instruction.accounts) |->
              IF is_some(instruction.accounts[j].pda)
              THEN seed_names(unwrap(instruction.accounts[j].pda).seeds)
              ELSE <<>>])

argument_names(instruction) ==
    [k \in 1..Len(instruction.args) |-> instruction.args[k].name]

derivation_only_params(instruction) ==
    first_occurrences(
        SelectSeq(derivation_names(instruction),
                  LAMBDA n : n # S_creator /\ ~contains(argument_names(instruction), n)))

\* C11: a wrapper's parameter list is `wallet` first, then every
\* instruction argument name in schema order, then every derivation-only
\* parameter in first-seen order across the instruction's derived accounts;
\* a derivation parameter is added only if it is not already in the list
\* and is not `creator`.
C11_WrapperParameters ==
    wrapper_returned =>
        LET code == output.val.val IN
        /\ code[2].tpl = "export const {} = async (wallet"
        /\ \A k \in 3..(first_position(code, ") => {\n") - 1) : code[k].tpl = ", {}"
        /\ declared_params(code)
              = argument_names(wrapped_instruction) \o derivation_only_params(wrapped_instruction)

\* C11 witness: the argument `c`, then two derived accounts whose seeds name
\* d, c, creator and c again; the wrapper declares c and d.
C11_Witness ==
    /\ wrapper_returned
    /\ argument_names(wrapped_instruction) = <<N_c>>
    /\ derivation_names(wrapped_instruction) = <<N_d, N_c, S_creator, N_c>>
    /\ declared_params(output.val.val) = <<N_c, N_d>>

\* the entries of a wrapper's account map, in order
account_entries(code) ==
    [j \in 1..Len(wrapped_instruction.accounts) |->
        code[first_position(code, "    .accounts({\n") + j]]

\* the binding the rules (a)-(e) give an account, decided by the fields of
\* the account itself
bound_by_rule(account, entry) ==
    IF is_some(account.pda)
    THEN /\ entry.tpl = "      {}: {},{}{}  \n"
         /\ entry.vals[2] = snake_to_camel(account.name) \o S_Pda
    ELSE IF is_signer_account(account)
    THEN entry.tpl = "      {}: wallet.publicKey,{}{}\n"
    ELSE IF is_some(account.address) /\ unwrap(account.address) = SYSTEM_PROGRAM_ID
    THEN entry.tpl = "      {}: anchor.web3.SystemProgram.programId,{}{}\n"
    ELSE IF is_some(account.address)
    THEN /\ entry.tpl = "      {}: new PublicKey('{}'),{}{}\n"
         /\ entry.vals[2] = unwrap(account.address)
    ELSE /\ entry.tpl = "      {}: {}, // TODO: Add proper account{}{}\n"
         /\ entry.vals[2] = snake_to_camel(account.name)

\* C12: in a wrapper's account map every account is bound by the first
\* matching rule: it has a Derived-Address-Spec -> its derived-address
\* variable; else it is flagged signer -> the caller's identity; else its
\* fixed address is the system program's -> the system-program constant;
\* else it has a fixed address -> that literal; else -> a parameter named by
\* the camel-cased account name, marked for manual verification.
C12_AccountBoundByFirstRule ==
    wrapper_returned =>
        LET entries == account_entries(output.val.val) IN
        \A j \in 1..Len(wrapped_instruction.accounts) :
            /\ entries[j].vals[1] = snake_to_camel(wrapped_instruction.accounts[j].name)
            /\ bound_by_rule(wrapped_instruction.accounts[j], entries[j])

\* the accounts of the instruction have different names
distinct_account_names(instruction) ==
    \A i, j \in 1..Len(instruction.accounts) :
        instruction.accounts[i].name = instruction.accounts[j].name => i = j

\* the accounts of an instruction that carry a Derived-Address-Spec, in
\* schema order
derived_of(instruction) ==
    SelectSeq(instruction.accounts, LAMBDA account : is_some(account.pda))

return_line(code) == code[Len(code) - 1]

\* C13: a wrapper returns the bare transaction result when its instruction
\* has no derived account, and otherwise the transaction result together
\* with the derived address of the first account in schema order that
\* carries a Derived-Address-Spec, whatever the number of derived accounts.
C13_ReturnsFirstDerivedAddress ==
    wrapper_returned =>
        LET code == output.val.val
            derived == derived_of(wrapped_instruction)
        IN  IF derived = <<>>
            THEN return_line(code) = Lit("  return tx;\n")
            ELSE /\ return_line(code)
                      = Fmt("  return {{ tx, pda: {} }};\n",
                            <<snake_to_camel(derived[1].name) \o S_Pda>>)
                 /\ return_line(code).vals[1]
                      = code[first_position(code, "  const [{}] = {}({});\n")].vals[1]

\* C13 witness: the derived account `r` comes before the derived account
\* `p_a`, and the wrapper returns rPda.
C13_Witness ==
    /\ wrapper_returned
    /\ Len(derived_of(wrapped_instruction)) = 2
    /\ derived_of(wrapped_instruction)[1].name = N_r
    /\ derived_of(wrapped_instruction)[2].name = N_p_a
    /\ return_line(output.val.val).vals = <<(<<"r">> \o S_Pda)>>

\* C14: the preamble binds the RPC endpoint by the metadata's network
\* identifier: "mainnet" selects the mainnet endpoint, "devnet" the devnet
\* endpoint and every other identifier the devnet endpoint, without
\* failing; the program-address constant is the metadata's deployed address.
C14_EndpointByNetwork ==
    (pc = "ret" /\ output.fn = "generate_ts_code" /\ unknown_seed_kinds(input.idl) = {}) =>
        /\ output.val.ok
        /\ LET code == output.val.val
               connections == positions(code, "const connection = new Connection('{}', 'confirmed');\n\n")
               addresses == positions(code, "const PROGRAM_ID = new PublicKey('{}');\n\n")
           IN  /\ Cardinality(connections) = 1
               /\ \A k \in connections :
                     code[k].vals = <<IF input.program_info.network = S_mainnet
                                      THEN Lit("https://api.mainnet-beta.solana.com")
                                      ELSE Lit("https://api.devnet.solana.com")>>
               /\ Cardinality(addresses) = 1
               /\ \A k \in addresses : code[k].vals = <<input.program_info.program_id>>

\* C14 witness: the client of a program on the network "testnet" was
\* generated.
C14_Witness ==
    /\ pc = "ret"
    /\ output.fn = "generate_ts_code"
    /\ output.val.ok
    /\ input.program_info.network = <<"t","e","s","t","n","e","t">>
    /\ input.program_info.program_id = SYSTEM_PROGRAM_ID

\* the entries of a text made from one template, in order
entries_of(code, template) == SelectSeq(code, LAMBDA e : e.tpl = template)

\* C15: the output of generate_ts_code contains exactly one wrapper per
\* instruction of the schema, and the wrappers appear in the order of the
\* instructions in the schema.
C15_OneWrapperPerInstructionInOrder ==
    (pc = "ret" /\ output.fn = "generate_ts_code" /\ output.val.ok) =>
        LET wrappers == entries_of(output.val.val, "export const {} = async (wallet")
            invocations == entries_of(output.val.val, "    .{}(")
        IN  /\ Len(wrappers) = Len(input.idl.instructions)
            /\ \A i \in 1..Len(wrappers) :
                  wrappers[i].vals = <<snake_to_camel(input.idl.instructions[i].name)>>
            /\ invocations = [i \in 1..Len(wrappers) |->
                                 Fmt("    .{}(", wrappers[i].vals)]

\* C15 witness: a schema of MaxInstr differently named instructions, the
\* first with a derived account and the last without, was generated.
C15_Witness ==
    /\ pc = "ret"
    /\ output.fn = "generate_ts_code"
    /\ output.val.ok
    /\ Len(input.idl.instructions) = MaxInstr
    /\ input.idl.instructions[1].name # input.idl.instructions[MaxInstr].name
    /\ derived_of(input.idl.instructions[1]) # <<>>
    /\ derived_of(input.idl.instructions[MaxInstr]) = <<>>
    /\ Len(entries_of(output.val.val, "export const {} = async (wallet")) = MaxInstr

\* the text between `.<method>(` and `)` of a wrapper's invocation
invocation_arguments(code) ==
    SubSeq(code, first_position(code, "    .{}(") + 1, first_position(code, ")\n") - 1)

\* C16: the instruction invocation of a wrapper forwards exactly the
\* instruction's arguments, each once, in declared schema order;
\* derivation-only parameters are not forwarded and the order is not
\* changed.
C16_ForwardsArgumentsInOrder ==
    wrapper_returned =>
        LET between == invocation_arguments(output.val.val) IN
        /\ \A k \in 1..Len(between) : between[k].tpl \in {"{}", ", "}
        /\ [k \in 1..Len(entries_of(between, "{}")) |-> entries_of(between, "{}")[k].vals[1]]
              = argument_names(wrapped_instruction)
        /\ Len(entries_of(between, ", "))
              = IF wrapped_instruction.args = <<>> THEN 0 ELSE Len(wrapped_instruction.args) - 1

\* C16 witness: the arguments d and c, in this order, and a derived account
\* whose seeds name d, c and nothing else; the wrapper forwards d, c.
C16_Witness ==
    /\ wrapper_returned
    /\ argument_names(wrapped_instruction) = <<N_d, N_c>>
    /\ derivation_names(wrapped_instruction) = <<N_d, N_c>>
    /\ Len(invocation_arguments(output.val.val)) = 3

\* the number of client files the command has written
clients_written == Len(entries_of(stdout, "Generated {}"))

\* C17: when generate_typescript_client finishes a batch, the count of
\* generated clients it reports equals the number of programs whose
\* generation succeeded and whose file was written, and the count is
\* reported also when some programs of the batch failed.
C17_CountReportedAfterBatch ==
    (pc = "done" /\ idx >= 1) =>
        /\ generated_count = clients_written
        /\ stdout[Len(stdout)]
              = IF clients_written = 0
                THEN Lit("No client files generated. Make sure IDL files are available.")
                ELSE Fmt("Generated {} client{}!",
                         <<clients_written, IF clients_written = 1 THEN Lit("") ELSE Lit("s")>>)

\* C18: in install_dependencies a failure to fetch one dependency from the
\* registry (a network error on the request as well as a non-success HTTP
\* status) does not abort the command: the remaining regular and dev
\* dependencies are still processed.  So the command, once in its loops,
\* returns before it has reached the last dependency only when a file
\* operation failed.
C18_FetchFailureDoesNotAbort ==
    (/\ pc = "installed"
     /\ install.next >= 1
     /\ (unwrap(ret).ok \/ unwrap(ret).err.variant # "Io")) =>
        install.next >= Len(dependencies)

\* the names of the derivation functions defined in a text, in order
defined_function_names(code) ==
    [k \in 1..Len(entries_of(code, "export const {} = ({}) => {{\n")) |->
        entries_of(code, "export const {} = ({}) => {{\n")[k].vals[1]]

\* C19: within one program's output no two derivation-function definitions
\* have the same function name get<UpperCamel(account name)>PDA, also for
\* derived account names that differ only in underscores or in the case of
\* a segment's first letter.
C19_DistinctFunctionNames ==
    (pc = "ret" /\ output.fn = "generate_pda_functions" /\ output.val.ok) =>
        no_duplicates(defined_function_names(output.val.val))

\* the arguments passed at the derivation calls of a wrapper
derivation_call_arguments(code) ==
    UNION { { split_on(e.vals[3], S_comma_space)[k] :
                k \in 1..Len(split_on(e.vals[3], S_comma_space)) }
            : e \in { code[k] : k \in positions(code, "  const [{}] = {}({});\n") } }

\* the identifiers a wrapper's body uses as externally supplied values
external_identifiers(code) ==
    { e.vals[1] : e \in { invocation_arguments(code)[k] :
                            k \in positions(invocation_arguments(code), "{}") } }
    \cup (derivation_call_arguments(code) \ {<<>>, S_wallet_publicKey})
    \cup { code[k].vals[2] :
             k \in positions(code, "      {}: {}, // TODO: Add proper account{}{}\n") }

\* C20: in every emitted wrapper, each identifier the body uses as an
\* externally supplied value (a forwarded instruction argument, a
\* non-`creator` derivation parameter passed to a derivation call, or the
\* parameter an account is bound to by the fall-through rule) is one of the
\* wrapper's declared parameters.
C20_ExternalIdentifiersDeclared ==
    wrapper_returned =>
        \A id \in external_identifiers(output.val.val) :
            contains(declared_params(output.val.val), id)

\* the derivation call sites of a wrapper, in order
derivation_calls(code) == entries_of(code, "  const [{}] = {}({});\n")

\* the arguments of one call site, as a list
passed_arguments(call) ==
    IF call.vals[3] = <<>> THEN <<>> ELSE split_on(call.vals[3], S_comma_space)

\* the Seed Resolver's parameters for a derived account of an instruction
resolver_params(instruction, account) ==
    parse_pda_seeds(unwrap(account.pda).seeds, instruction.args).val[1]

\* C21: at every derivation call site of a wrapper the arguments are the
\* Seed Resolver's parameters for that account, in resolver order, each
\* parameter named `creator` replaced by the caller's own identity and
\* every other parameter forwarded unchanged; a derivation never adds
\* `creator` to the wrapper's parameter list.
C21_CallSiteArguments ==
    wrapper_returned =>
        LET code == output.val.val
            derived == derived_of(wrapped_instruction)
            calls == derivation_calls(code)
        IN  /\ Len(calls) = Len(derived)
            /\ \A j \in 1..Len(derived) :
                  LET params == resolver_params(wrapped_instruction, derived[j])
                      passed == passed_arguments(calls[j])
                  IN  /\ calls[j].vals[2] = pda_function_name(derived[j])
                      /\ Len(passed) = Len(params)
                      /\ \A k \in 1..Len(params) :
                            /\ params[k] = S_creator => passed[k] = S_wallet_publicKey
                            /\ params[k] # S_creator => passed[k] = params[k]
            /\ contains(declared_params(code), S_creator)
                  => contains(argument_names(wrapped_instruction), S_creator)

\* C21 witness: the account `p_a` is derived from `creator` and the
\* argument `c`; its call site passes wallet.publicKey and c, and the
\* wrapper does not declare `creator`.
C21_Witness ==
    /\ wrapper_returned
    /\ \E j \in 1..Len(derived_of(wrapped_instruction)) :
          /\ resolver_params(wrapped_instruction, derived_of(wrapped_instruction)[j])
                = <<S_creator, N_c>>
          /\ passed_arguments(derivation_calls(output.val.val)[j])
                = <<S_wallet_publicKey, N_c>>
    /\ ~contains(declared_params(output.val.val), S_creator)

\* parse_pda_seeds returned Ok for seeds that all carry their value or path,
\* so that the k-th expression is the one of the k-th seed
resolved ==
    /\ pc = "ret"
    /\ output.fn = "parse_pda_seeds"
    /\ output.val.ok
    /\ \A k \in 1..Len(input.seeds) :
          IF input.seeds[k].kind = S_const THEN is_some(input.seeds[k].value)
          ELSE is_some(input.seeds[k].path)
    /\ Len(output.val.val[2]) = Len(input.seeds)

resolved_params == output.val.val[1]

expression(k) == output.val.val[2][k]

arg_seeds == { k \in 1..Len(input.seeds) : input.seeds[k].kind = S_arg }

\* the Arguments of the instruction that an arg-kind seed's path matches
matching_args(k) ==
    SelectSeq(input.args, LAMBDA a : a.name = unwrap(input.seeds[k].path))

\* the declared type of the Argument the k-th seed refers to
declared_type(k) == matching_args(k)[1].arg_type

\* the encoding table of the primitive types
primitive_encoding(ty, name) ==
    CASE ty \in {S_string, S_bytes, S_VecU8} -> Fmt("Buffer.from({})", <<name>>)
      [] ty = S_u8 -> Fmt("Buffer.from([{}])", <<name>>)
      [] ty = S_u16 -> Fmt("Buffer.from(new Uint16Array([{}]))", <<name>>)
      [] ty = S_i16 -> Fmt("Buffer.from(new Int16Array([{}]))", <<name>>)
      [] ty = S_u32 -> Fmt("Buffer.from(new Uint32Array([{}]))", <<name>>)
      [] ty = S_i32 -> Fmt("Buffer.from(new Int32Array([{}]))", <<name>>)
      [] ty \in {S_u64, S_i64} -> Fmt("Buffer.from(new anchor.BN({}).toArray('le', 8))", <<name>>)
      [] ty = S_i8 -> Fmt("Buffer.from([{} < 0 ? {} + 256 : {}])", <<name, name, name>>)
      [] ty = S_bool -> Fmt("Buffer.from([{} ? 1 : 0])", <<name>>)

address_typed(ty) ==
    \/ ty.json = "String" /\ ty.s \in {S_pubkey, S_PublicKey}
    \/ ty.json = "Object" /\ ty.defined = Some(JStr(S_Pubkey))

\* C23: an arg-kind seed whose argument is address-typed (pubkey,
\* PublicKey, or the structured type {"defined": "Pubkey"}) is encoded as
\* the raw address byte form, the expression an account-kind seed gets.
C23_AddressTypedArgument ==
    resolved =>
        \A k \in arg_seeds :
            (matching_args(k) # <<>> /\ address_typed(declared_type(k)))
                => expression(k) = Fmt("{}.toBuffer()", <<unwrap(input.seeds[k].path)>>)

\* the type names the encoding table recognizes
recognized_type_names == PrimitiveTypes \cup AddressTypeNames

numeric_fallback(k) ==
    expression(k) = Fmt("Buffer.from(new Uint32Array([{}]))", <<unwrap(input.seeds[k].path)>>)

\* C24: an arg-kind seed whose argument type is a structured descriptor (a
\* JSON object) is never given a numeric encoding: its expression is the
\* raw pass-through carrying the unverified-type marker; only type names
\* starting with `u` or `i` that the table does not recognize get the
\* 4-byte numeric fallback.
C24_StructuredTypeIsMarked ==
    resolved =>
        \A k \in arg_seeds :
            matching_args(k) # <<>> =>
                /\ declared_type(k).json = "Object"
                      => /\ expression(k).tpl
                              = "Buffer.from({}) // TODO: Verify type handling for '{}'"
                         /\ expression(k).vals[1] = unwrap(input.seeds[k].path)
                /\ (numeric_fallback(k) /\ declared_type(k).s # S_u32)
                      => /\ declared_type(k).json = "String"
                         /\ declared_type(k).s \notin recognized_type_names
                         /\ declared_type(k).s[1] \in {"u", "i"}

\* C25: an arg-kind seed whose path matches no Argument of the instruction
\* does not fail: the path is a parameter and its expression is the
\* string-type raw pass-through.
C25_UnmatchedArgumentIsString ==
    (/\ pc = "ret"
     /\ output.fn = "parse_pda_seeds"
     /\ \A k \in 1..Len(input.seeds) : known_kind(input.seeds[k])) =>
        /\ output.val.ok
        /\ resolved =>
              \A k \in arg_seeds :
                  matching_args(k) = <<>> =>
                      /\ contains(resolved_params, unwrap(input.seeds[k].path))
                      /\ expression(k) = Fmt("Buffer.from({})", <<unwrap(input.seeds[k].path)>>)

\* C25 witness: the seed refers to `c` while the only Argument is `amount`.
C25_Witness ==
    /\ resolved
    /\ input.seeds = <<IdlSeed(S_arg, None, Some(N_c))>>
    /\ input.args = <<IdlArg(S_amount, TypeString(S_u64))>>
    /\ output.val.val = <<(<<N_c>>), <<Fmt("Buffer.from({})", <<N_c>>)>>>>

\* the parameter name of the k-th seed: the final segment of an
\* account-kind path, the whole arg-kind path
parameter_name(k) ==
    IF input.seeds[k].kind = S_account
    THEN split_on(unwrap(input.seeds[k].path), <<".">>)
             [Len(split_on(unwrap(input.seeds[k].path), <<".">>))]
    ELSE unwrap(input.seeds[k].path)

named_seeds == { k \in 1..Len(input.seeds) : input.seeds[k].kind \in {S_account, S_arg} }

\* C26: for an account-kind seed the parameter name is the final segment
\* of the dotted path, for an arg-kind seed it is the whole path, and two
\* seeds that yield the same name share one parameter.
C26_ParameterNames ==
    resolved =>
        /\ \A k \in named_seeds :
              /\ contains(resolved_params, parameter_name(k))
              /\ expression(k).vals[1] = parameter_name(k)
        /\ \A i \in 1..Len(resolved_params) :
              \E k \in named_seeds : resolved_params[i] = parameter_name(k)
        /\ no_duplicates(resolved_params)

\* C26 witness: the account path a.b.c and the arg path c share the
\* parameter c.
C26_Witness ==
    /\ resolved
    /\ input.seeds = <<IdlSeed(S_account, None, Some(P_a_b_c)),
                       IdlSeed(S_arg, None, Some(N_c))>>
    /\ resolved_params = <<N_c>>

const_seeds == { k \in 1..Len(input.seeds) : input.seeds[k].kind = S_const }

schema_references(idl) ==
    concat([i \in 1..Len(idl.instructions) |->
              concat([j \in 1..Len(idl.instructions[i].accounts) |->
                        IF is_some(idl.instructions[i].accounts[j].pda)
                        THEN <<(<<i, j>>)>> ELSE <<>>])])

\* the indices of the references that are the first of their name
first_references(idl) ==
    { k \in 1..Len(schema_references(idl)) :
        \A m \in 1..(k - 1) :
            account_at(idl, schema_references(idl)[m]).name
                # account_at(idl, schema_references(idl)[k]).name }

\* the b-th smallest element of a set of numbers
nth(S, b) == CHOOSE k \in S : Cardinality({ m \in S : m <= k }) = b

\* the b-th derivation function of the code is the one of the reference
\* ij: its name, and the parameters and expressions of the account's seeds
\* resolved with the arguments of the instruction of ij
function_built_from(code, b, idl, ij) ==
    LET p == nth(positions(code, "// Get {} PDA\n"), b)
        account == account_at(idl, ij)
        parsed == parse_pda_seeds(unwrap(account.pda).seeds, idl.instructions[ij[1]].args)
    IN  /\ parsed.ok
        /\ p + 4 + Len(parsed.val[2]) <= Len(code)
        /\ code[p].vals = <<account.name>>
        /\ code[p + 1].tpl = "export const {} = ({}) => {{\n"
        /\ code[p + 1].vals[2] = join(parsed.val[1], S_comma_space)
        /\ \A k \in 1..Len(parsed.val[2]) :
              code[p + 3 + k] = Fmt("      {},\n", <<parsed.val[2][k]>>)
        /\ code[p + 4 + Len(parsed.val[2])] = Lit("    ],\n")

generated ==
    pc = "ret" /\ output.fn \in {"generate_pda_functions", "generate_ts_code"} /\ output.val.ok

\* C28: derivation functions appear in the order of each name's first
\* occurrence in the schema (instruction order, then account order), each
\* is built from the seeds and the argument types of the first
\* instruction that references its name, and every derivation function
\* precedes every wrapper of the output.
C28_FunctionsInSchemaOrder ==
    generated =>
        LET code == output.val.val
            refs == schema_references(input.idl)
            firsts == first_references(input.idl)
        IN  /\ Cardinality(positions(code, "// Get {} PDA\n")) = Cardinality(firsts)
            /\ \A b \in 1..Cardinality(firsts) :
                  function_built_from(code, b, input.idl, refs[nth(firsts, b)])
            /\ \A f \in positions(code, "export const {} = ({}) => {{\n") :
                  \A w \in positions(code, "export const {} = async (wallet") : f < w

\* C28 witness: the first instruction references u_v and has no argument,
\* the second references c and then u_v and declares c: u64; the output
\* defines u_v, with the string encoding of c, then c, then two wrappers.
C28_Witness ==
    /\ generated
    /\ output.fn = "generate_ts_code"
    /\ Len(input.idl.instructions) = 2
    /\ input.idl.instructions[1].args = <<>>
    /\ input.idl.instructions[2].args = <<IdlArg(N_c, TypeString(S_u64))>>
    /\ schema_references(input.idl) = <<(<<1, 1>>), <<2, 1>>, <<2, 2>>>>
    /\ account_at(input.idl, <<1, 1>>).name = N_u_v
    /\ account_at(input.idl, <<2, 1>>).name = N_c
    /\ account_at(input.idl, <<2, 2>>).name = N_u_v
    /\ [k \in 1..2 |-> entries_of(output.val.val, "// Get {} PDA\n")[k].vals[1]] = <<N_u_v, N_c>>
    /\ output.val.val[nth(positions(output.val.val, "// Get {} PDA\n"), 1) + 4]
          = Fmt("      {},\n", <<Fmt("Buffer.from({})", <<N_c>>)>>)
    /\ Cardinality(positions(output.val.val, "export const {} = async (wallet")) = 2

\* the programs of the batch whose client was generated and written, and
\* whose file no later pass of the batch has touched
generated_programs ==
    IF pc \in {"loop", "done"} /\ idx >= 1
    THEN { k \in 1..(idx - 1) :
             \A m \in (k + 1)..Len(all_programs) :
                 m <= idx => all_programs[m].name # all_programs[k].name }
    ELSE {}

\* the text generated for the k-th program when it is generated alone
generated_alone(k) ==
    generate_ts_code(
        unwrap(idl_files[idl_file_path_of(all_programs[k].name, all_programs[k].info)]).val,
        all_programs[k].name, all_programs[k].info)

client_of(k) == unwrap(files[client_file_path_of(all_programs[k].name)])

token_has_prefix ==
    Len(auth.token) >= 4 /\ SubSeq(auth.token, 1, 4) = <<"s", "p", "r", "_">>

token_verified ==
    /\ is_some(auth.auth_response)
    /\ unwrap(auth.auth_response).valid
    /\ \E k \in 1..Len(unwrap(auth.auth_response).permissions) :
          unwrap(auth.auth_response).permissions[k] = S_publish_programs

password_confirmed ==
    /\ is_some(auth.password)
    /\ unwrap(auth.password) # <<>>
    /\ auth.confirm_password = auth.password

\* each check is made only after the checks before it succeeded
checks_in_order ==
    /\ pc \in {"verify", "password", "confirm", "save"} => token_has_prefix
    /\ (pc \in {"password", "confirm", "save"} \/ is_some(auth.password))
          => token_has_prefix /\ token_verified
    /\ (pc = "save" \/ is_some(auth.confirm_password))
          => token_has_prefix /\ token_verified /\ password_confirmed

\* C30: login writes the credentials file only after the token was found
\* to start with `spr_`, the registry verified it (valid, with the
\* `publish:programs` permission) and a non-empty encryption password was
\* entered and confirmed identically, in this order; when one of these
\* steps fails, login returns an error and the stored credentials are
\* left unchanged.
C30_CredentialsWrittenAfterChecks ==
    /\ [](auth # None => checks_in_order)
    /\ [][auth # None =>
            /\ files' # files
                  => pc = "save" /\ token_has_prefix /\ token_verified /\ password_confirmed
            /\ (pc' = "done" /\ pc # "save")
                  => ~unwrap(ret').ok /\ files' = files
            /\ (pc' = "done" /\ unwrap(ret').ok)
                  => /\ pc = "save"
                     /\ unwrap(files'[S_credentials_path])[1].encrypted_token.plaintext
                          = auth.token]_vars

\* C30 witness: the token given with surrounding spaces was verified with
\* two permissions, the password was confirmed, and the credentials of
\* the token were written.
C30_Witness ==
    /\ auth # None
    /\ pc = "done"
    /\ unwrap(ret).ok
    /\ auth.token_arg = Some(<<" ">> \o S_spr_ \o <<"t", " ">>)
    /\ Len(unwrap(auth.auth_response).permissions) = 2
    /\ password_confirmed
    /\ unwrap(files[S_credentials_path])[1].encrypted_token.plaintext = S_spr_ \o <<"t">>

====
